---------------------------- MODULE Spec2Model ----------------------------
(***************************************************************************)
(* Model of the trailing-stop engine (profit_trailing.py), the price feed  *)
(* watchdog (binance_ws.py) and the signal orchestrator                    *)
(* (signal_processor.py) with the order helpers they call                  *)
(* (trade_manager.py, order_manager.py).                                   *)
(*                                                                         *)
(* Prices are integers in points.  Every price and entry of the model is a *)
(* multiple of 100, so the float division new_max_profit / 2 of the source *)
(* is exact and is written \div 2.  The ratio profit / entry is kept as    *)
(* the pair <<numerator, denominator>>.                                    *)
(***************************************************************************)
EXTENDS Integers, Sequences, FiniteSets, TLC

(***************************************************************************)
(* Bounds of the model.                                                    *)
(***************************************************************************)
\* how many of the prices of PriceSeq the direct calls are made with
NumPrices == 6
\* how many of the prices of PriceSeq the feed delivers to the engine's loop
NumTrackPrices == 3
\* how many subscription threads are started in a run
MaxSubs == 3
\* how many of the signals of SignalSeq are on the bus
NumSignals == 7

(***************************************************************************)
(* Program constants.                                                      *)
(***************************************************************************)
FIXED_STOP_OFFSET == 500
LOCK_THRESHOLD == 1000

\* live prices, chosen around the two entries so that every rule, both
\* strict comparisons (profit = 1000, live = stop) and both sides happen
PriceSeq == <<49400, 51100, 50200, 49500, 51000, 52400, 50500, 50600>>
Prices == {PriceSeq[i] : i \in 1..NumPrices}

(***************************************************************************)
(* Raw fields of a gateway document: a value that float() parses, or one   *)
(* it rejects (a junk string, or a missing field: float(None) raises too). *)
(***************************************************************************)
Num(n) == [k |-> "num", v |-> n]
Junk == [k |-> "junk", v |-> 0]
Ids == {"p1", "p2"}
Position(i, e, s) == [id |-> i, symbol |-> "BTCUSD", entry |-> e, size |-> s]
\* the positions the gateway can report under an id: a long, a short, one
\* whose entry price does not parse and one whose size does not parse
PosKinds == {<<Num(50000), Num(1)>>, <<Num(52000), Num(-2)>>,
             <<Junk, Num(1)>>, <<Num(50000), Junk>>}
\* the positions the direct calls are made with: every kind, under one id
PosPool == {Position("p1", k[1], k[2]) : k \in PosKinds}

\* dictionaries are functions on the set of their keys
EmptyDict == [x \in {} |-> 0]
DictGet(d, key, default) == IF key \in DOMAIN d THEN d[key] ELSE default
DictPut(d, key, val) == [x \in (DOMAIN d) \cup {key} |-> IF x = key THEN val ELSE d[x]]
Max(a, b) == IF a >= b THEN a ELSE b
Min(a, b) == IF a <= b THEN a ELSE b

VARIABLES
    position_max_profit,    \* ProfitTrailing.position_max_profit: id -> points
    position_trailing_stop, \* ProfitTrailing.position_trailing_stop: id -> stop
    call,                   \* the last direct call: its arguments and what it returned
    current_price,          \* binance_ws.current_price (NoPrice: None)
    cached_positions,       \* ProfitTrailing.cached_positions
    since_fetch,            \* the loop's clock minus last_position_fetch_time, up to 5
    engine,                 \* where track() is: waiting, running, exited, crashed
    wait_time,              \* track()'s wait_time
    tick,                   \* what the last iteration of track()'s loop did
    pt_orders,              \* ProfitTrailing.trade_manager.order_manager.orders
    age,                    \* seconds since binance_ws.last_update_time, up to 4
    ws_app,                 \* binance_ws.ws_app: the subscription it refers to (0: None)
    subs,                   \* the subscription threads started, in order
    watchdog,               \* monitor_websocket's thread: running or ended
    wd,                     \* what the last iteration of monitor_websocket did
    stale_reconnects,       \* reconnects since the last price message was stamped
    rx,                     \* the last message on_message was called with, and by which subscription
    gw_positions,           \* the gateway: what fetch_positions returns
    gw_orders,              \* the gateway: what fetch_open_orders returns
    gw_next_id,             \* the gateway: how many orders it has given an id
    last_signal,            \* SignalProcessor.last_signal (NoSignal: None)
    sp_orders,              \* SignalProcessor.order_manager.orders: id -> record
    sp,                     \* process_signals_loop: running or crashed
    poll                    \* what the last iteration of process_signals_loop did

storeVars == <<position_max_profit, position_trailing_stop, pt_orders>>
trackVars == <<current_price, cached_positions, since_fetch, engine, wait_time, tick>>
feedVars == <<age, ws_app, subs, watchdog, wd, stale_reconnects, rx>>
vars == <<position_max_profit, position_trailing_stop, pt_orders, call, current_price,
          cached_positions, since_fetch, engine, wait_time, tick,
          age, ws_app, subs, watchdog, wd, stale_reconnects, rx,
          gw_positions, gw_orders, gw_next_id, last_signal, sp_orders, sp, poll>>
gwVars == <<gw_positions, gw_orders, gw_next_id>>
sigVars == <<last_signal, sp_orders, sp, poll>>

(***************************************************************************)
(* size = pos.get('size') or pos.get('contracts') or 0; float(size), and   *)
(* 0.0 when float() raises.                                                *)
(***************************************************************************)
SizeOf(pos) == IF pos.size.k = "num" THEN pos.size.v ELSE 0

Abs(n) == IF n < 0 THEN -n ELSE n

\* what update_trailing_stop returns when float(entry) raises
NoneRet == [stop |-> 0, ratio |-> <<0, 1>>, rule |-> "None"]

\* new_max_profit = max(prev_max, current_profit)
NewMaxProfit_adds(prev_max, current_profit) == prev_max + Max(0, current_profit)
NewMaxProfit_forgets(prev_max, current_profit) == current_profit
NewMaxProfit(prev_max, current_profit) == Max(prev_max, current_profit)

\* if new_max_profit > 1000 and current_profit > 0
LockApplies_atThreshold(new_max_profit, current_profit) ==
    new_max_profit >= LOCK_THRESHOLD /\ current_profit > 0
LockApplies(new_max_profit, current_profit) ==
    new_max_profit > LOCK_THRESHOLD /\ current_profit > 0

\* the stop of the rule before it is compared with the stored one
\* (lock_sl, default_sl)
CandidateStop(lock, size, entry, new_max_profit) ==
    IF lock
    THEN IF size > 0 THEN entry + new_max_profit \div 2
                     ELSE entry - new_max_profit \div 2
    ELSE IF size > 0 THEN entry - FIXED_STOP_OFFSET
                     ELSE entry + FIXED_STOP_OFFSET

\* new_trailing: the stored stop only moves up for a long, down for a short
Tighten_relaxes(order_id, size, ts, candidate) == candidate
Tighten_loosens(order_id, size, ts, candidate) ==
    IF order_id \in DOMAIN ts
    THEN IF size > 0 THEN Min(ts[order_id], candidate)
                     ELSE Max(ts[order_id], candidate)
    ELSE candidate
Tighten(order_id, size, ts, candidate) ==
    IF order_id \in DOMAIN ts
    THEN IF size > 0 THEN Max(ts[order_id], candidate)
                     ELSE Min(ts[order_id], candidate)
    ELSE candidate

(***************************************************************************)
(* ProfitTrailing.update_trailing_stop(pos, live_price) on the two         *)
(* dictionaries mp (position_max_profit) and ts (position_trailing_stop):  *)
(* the dictionaries after the call and the tuple returned.                 *)
(***************************************************************************)
update_trailing_stop(pos, live_price, mp, ts) ==
    IF pos.entry.k # "num"
    THEN [mp |-> mp, ts |-> ts, ret |-> NoneRet]
    ELSE
      LET order_id == pos.id
          entry == pos.entry.v
          size == SizeOf(pos)
          current_profit == IF size > 0 THEN live_price - entry ELSE entry - live_price
          prev_max == DictGet(mp, order_id, 0)
          new_max_profit == NewMaxProfit(prev_max, current_profit)
          lock == LockApplies(new_max_profit, current_profit)
          new_trailing ==
              Tighten(order_id, size, ts, CandidateStop(lock, size, entry, new_max_profit))
      IN [mp |-> DictPut(mp, order_id, new_max_profit),
          ts |-> DictPut(ts, order_id, new_trailing),
          ret |-> [stop |-> new_trailing,
                   ratio |-> IF lock THEN <<new_max_profit, entry>>
                                     ELSE <<current_profit, entry>>,
                   rule |-> IF lock THEN "lock_50" ELSE "fixed_stop"]]

\* time.sleep(1) in place_market_order, after the order is created
MARKET_ORDER_DELAY == 1

(***************************************************************************)
(* The Exchange Gateway is outside the repository.  A call of it succeeds  *)
(* or raises; which, is the environment's choice.  GwOutcomes are the      *)
(* outcomes of the calls one place_market_order makes: both succeed        *)
(* ("ok"), create_order raises, or create_order succeeds and the           *)
(* fetch_positions that follows raises.                                    *)
(***************************************************************************)
GwOutcomes == {"ok", "create_fails", "fetch_fails"}

\* the request of exchange.create_order(symbol, 'market', side, amount, None, params),
\* with the force flag place_market_order was called with
MarketOrder(side, amount, tif, force) ==
    [type |-> "market", symbol |-> "BTCUSD", side |-> side, amount |-> amount,
     tif |-> tif, force |-> force]

(***************************************************************************)
(* TradeManager.place_market_order(symbol, side, amount, params, force)    *)
(* with force=True: the checks of steps 1-4 are skipped, create_order is   *)
(* called, then fetch_positions; an exception of either is re-raised.      *)
(* sent: the requests that reached the gateway.                            *)
(***************************************************************************)
place_market_order_forced(side, amount, tif, gw) ==
    [sent |-> <<MarketOrder(side, amount, tif, TRUE)>>,
     outcome |-> IF gw = "ok" THEN "returned" ELSE "raised",
     created |-> gw # "create_fails"]

\* order_info, the record place_order and place_market_order keep in the
\* orders map of their OrderManager
\* timestamp: seconds; 0 where the clock is not modelled
CacheOrder(symbol, side, status, bracket, timestamp) ==
    [symbol |-> symbol, side |-> side, status |-> status, bracket |-> bracket,
     timestamp |-> timestamp]

\* order.get('id', ...): the gateway's id of the market order that closes
\* the position, one per position
MarketOrderId(pos) == IF pos.id = "p1" THEN "m1" ELSE "m2"

\* size > 0 and live_price < trailing_stop / size < 0 and live_price > trailing_stop
StopCrossed_atStop(size, live_price, trailing_stop) ==
    \/ size > 0 /\ live_price <= trailing_stop
    \/ size < 0 /\ live_price >= trailing_stop
StopCrossed(size, live_price, trailing_stop) ==
    \/ size > 0 /\ live_price < trailing_stop
    \/ size < 0 /\ live_price > trailing_stop

(***************************************************************************)
(* ProfitTrailing.book_profit(pos, live_price): the trailing stop is       *)
(* updated, and when the live price is across it a forced market order     *)
(* closes the position.  result: "True", "False", or "raised" when         *)
(* place_market_order raises (book_profit does not catch it).  The         *)
(* partial_booking branch is dead: update_trailing_stop never returns      *)
(* that rule.  recorded: the order_info place_market_order stores in       *)
(* self.order_manager.orders once create_order has returned.               *)
(***************************************************************************)
book_profit(pos, live_price, mp, ts, gw) ==
    LET size == SizeOf(pos)
        u == update_trailing_stop(pos, live_price, mp, ts)
        close == /\ u.ret.rule \in {"dynamic", "fixed_stop", "lock_50"}
                 /\ StopCrossed(size, live_price, u.ret.stop)
        pmo == place_market_order_forced(IF size > 0 THEN "sell" ELSE "buy",
                                         Abs(size), "ioc", gw)
        side == IF size > 0 THEN "sell" ELSE "buy"
    IN [mp |-> u.mp, ts |-> u.ts, ret |-> u.ret,
        sent |-> IF close THEN pmo.sent ELSE <<>>,
        recorded |-> IF close /\ pmo.created
                     THEN <<CacheOrder("BTCUSD", side, "open", FALSE, 0)>> ELSE <<>>,
        result |-> IF close THEN (IF pmo.outcome = "raised" THEN "raised" ELSE "True")
                            ELSE "False"]

(***************************************************************************)
(* OrderManager.place_order, attach_bracket_to_order, modify_bracket_order *)
(* and cancel_order on the orders map cache.  ok: the gateway call of the  *)
(* function returns, or it raises; order_id: for place_order the id the    *)
(* gateway gave the order.  sent: the gateway calls made; result:          *)
(* "returned", or "raised" when the function raises (the gateway's         *)
(* exception re-raised, or ValueError for an id the map does not hold).    *)
(***************************************************************************)
place_order(symbol, side, order_id, cache, ok) ==
    [sent |-> <<"create_limit_order">>,
     result |-> IF ok THEN "returned" ELSE "raised",
     cache |-> IF ok THEN DictPut(cache, order_id, CacheOrder(symbol, side, "open", FALSE, 0))
               ELSE cache]

\* a record created here has product_symbol and no symbol, no side
attach_bracket_to_order(order_id, cache, ok) ==
    [sent |-> <<"modify_bracket_order">>,
     result |-> IF ok THEN "returned" ELSE "raised",
     cache |-> IF ~ok THEN cache
               ELSE IF order_id \in DOMAIN cache
               THEN [cache EXCEPT ![order_id].bracket = TRUE]
               ELSE DictPut(cache, order_id, CacheOrder("", "", "open", TRUE, 0))]

\* the bracket parameters are changed in the map only: no gateway call
modify_bracket_order(order_id, cache) ==
    IF order_id \notin DOMAIN cache
    THEN [sent |-> <<>>, result |-> "raised", cache |-> cache]
    ELSE [sent |-> <<>>, result |-> "returned",
          cache |-> [cache EXCEPT ![order_id].bracket = TRUE]]

cancel_order_marksFirst(order_id, cache, ok) ==
    IF order_id \notin DOMAIN cache
    THEN [sent |-> <<>>, result |-> "raised", cache |-> cache]
    ELSE [sent |-> <<"cancel_order">>,
          result |-> IF ok THEN "returned" ELSE "raised",
          cache |-> [cache EXCEPT ![order_id].status = "canceled"]]
cancel_order(order_id, cache, ok) ==
    IF order_id \notin DOMAIN cache
    THEN [sent |-> <<>>, result |-> "raised", cache |-> cache]
    ELSE [sent |-> <<"cancel_order">>,
          result |-> IF ok THEN "returned" ELSE "raised",
          cache |-> IF ok THEN [cache EXCEPT ![order_id].status = "canceled"]
                    ELSE cache]

\* current_time - order.get('timestamp', 0) > 60000 (here in seconds)
STALE_ORDER_AGE == 60
IsStaleOrder_atLimit(current_time, timestamp) == current_time - timestamp >= STALE_ORDER_AGE
IsStaleOrder(current_time, timestamp) == current_time - timestamp > STALE_ORDER_AGE

\* side_lower == "buy" and size > 0 / side_lower == "sell" and size < 0
HoldsSide(side, size) ==
    \/ side = "buy" /\ size > 0
    \/ side = "sell" /\ size < 0

(***************************************************************************)
(* TradeManager.place_market_order(symbol, side, amount, params, force)    *)
(* on the orders map cache of its OrderManager, at time current_time.      *)
(* positions, pos_ok and orders, orders_ok: what fetch_positions and       *)
(* fetch_open_orders return, or that they raise (the error is logged and   *)
(* the check passed over); gw: the outcome of create_order and of the      *)
(* fetch_positions after it.  With force False: 1. a position of the       *)
(* symbol on the side, 2. an order of the side among the open orders, 4. a *)
(* cached order of the side with status open or pending each end the call  *)
(* with None; 3. before the fourth check the cached orders older than 60   *)
(* seconds are deleted.  5. the order is created and recorded under the id *)
(* the gateway gave it, here "m0".                                         *)
(***************************************************************************)
place_market_order(side, amount, tif, force, current_time, positions, pos_ok, orders, orders_ok, cache, gw) ==
    LET held == /\ pos_ok
                /\ \E i \in 1..Len(positions) :
                       /\ positions[i].symbol = "BTCUSD"   \* symbol in pos_symbol
                       /\ HoldsSide(side, SizeOf(positions[i]))
        pending == /\ orders_ok
                   /\ \E i \in 1..Len(orders) : orders[i].side = side
        kept == {id \in DOMAIN cache : ~IsStaleOrder(current_time, cache[id].timestamp)}
        fresh == [id \in kept |-> cache[id]]
        local == \E id \in kept :
                     /\ cache[id].side = side
                     /\ cache[id].status \in {"open", "pending"}
        order_info == CacheOrder("BTCUSD", side, "open", FALSE, current_time)
        Send(c) == [sent |-> <<MarketOrder(side, amount, tif, force)>>,
                    result |-> IF gw = "ok" THEN "order" ELSE "raised",
                    cache |-> IF gw = "create_fails" THEN c
                              ELSE DictPut(c, "m0", order_info)]
        Skip(c) == [sent |-> <<>>, result |-> "none", cache |-> c]
    IN IF force THEN Send(cache)
       ELSE IF held \/ pending THEN Skip(cache)
       ELSE IF local THEN Skip(fresh)
       ELSE Send(fresh)

(***************************************************************************)
(* ProfitTrailing.track(): the engine's loop.                              *)
(***************************************************************************)
\* binance_ws.current_price = None
NoPrice == 0
\* self.position_fetch_interval
POSITION_FETCH_INTERVAL == 5
\* while ... wait_time < 30: time.sleep(2); wait_time += 2
MAX_WAIT == 30
WAIT_STEP == 2

\* "BTCUSD" in pos_symbol
IsTraded(symbol) == symbol = "BTCUSD"

\* the position kept by fetch_open_positions: non-zero size, traded symbol
IsOpenTraded(pos) == SizeOf(pos) # 0 /\ IsTraded(pos.symbol)

(***************************************************************************)
(* ProfitTrailing.fetch_open_positions(): the gateway's positions of       *)
(* non-zero size on the traded instrument, and the empty list when         *)
(* fetch_positions raises.                                                 *)
(***************************************************************************)
fetch_open_positions(positions, fetch_ok) ==
    IF fetch_ok THEN SelectSeq(positions, IsOpenTraded) ELSE <<>>

NoTick == [refreshed |-> FALSE, fetch_ok |-> TRUE, evaluated |-> {}, sent |-> <<>>,
           closed |-> {}]

(***************************************************************************)
(* The body of track()'s for loop for one cached position, on the state    *)
(* st of the iteration so far.  The record logged with logger.info is not  *)
(* kept; its f-string formats entry_val with :.1f, which raises TypeError  *)
(* when float(entry) failed (entry_val is None): nothing in track()        *)
(* catches it.  A display with entry None is never stored in last_display, *)
(* so the comparison before the log never skips it.  An exception of       *)
(* book_profit is not caught either.                                       *)
(***************************************************************************)
track_position(pos, live_price, st, gw) ==
    IF SizeOf(pos) = 0 THEN st
    ELSE IF pos.entry.k # "num" THEN [st EXCEPT !.crashed = TRUE]
    ELSE LET u == update_trailing_stop(pos, live_price, st.mp, st.ts)
             b == book_profit(pos, live_price, u.mp, u.ts, gw)
         IN [mp |-> b.mp, ts |-> b.ts,
             orders |-> IF b.recorded = <<>> THEN st.orders
                        ELSE DictPut(st.orders, MarketOrderId(pos), b.recorded[1]),
             sent |-> st.sent \o b.sent,
             evaluated |-> st.evaluated \cup {pos.id},
             closed |-> st.closed \cup (IF b.sent # <<>> /\ gw # "create_fails"
                                        THEN {pos.id} ELSE {}),
             slept |-> st.slept + (IF b.sent # <<>> /\ gw # "create_fails"
                                   THEN MARKET_ORDER_DELAY ELSE 0),
             crashed |-> b.result = "raised"]

\* for pos in open_positions, from the i-th on, until an exception ends track()
RECURSIVE track_positions(_, _, _, _, _)
track_positions(positions, i, live_price, st, gws) ==
    IF i > Len(positions) \/ st.crashed THEN st
    ELSE track_positions(positions, i + 1, live_price,
                         track_position(positions[i], live_price, st, gws[i]), gws)

(***************************************************************************)
(* binance_ws.py: the price feed and its watchdog.                         *)
(***************************************************************************)
\* if time.time() - last_update_time > 3
STALE_AFTER == 3
\* time.sleep(1) in monitor_websocket
WATCHDOG_SLEEP == 1

\* the trade messages of the stream: complete and parsable, or lacking one
\* of "p", "q", "m", or with a price or quantity float() rejects, or no JSON
MsgKinds == {"valid", "missing_field", "bad_price", "bad_quantity", "bad_json"}
Msg(kind, price) == [kind |-> kind, price |-> price]

\* on_message reaches the assignment of current_price
Accepts_anyQuantity(msg) == msg.kind \in {"valid", "bad_quantity"}
Accepts(msg) == msg.kind = "valid"

NoRx == [n |-> 0, sub |-> 0, kind |-> "none"]

NoWd == [n |-> 0, stale |-> FALSE, close_target |-> 0, close_raised |-> FALSE,
         spawned |-> 0]

\* module level of binance_ws, and run_in_thread(): both threads started
FeedInit ==
    /\ age = STALE_AFTER + 1
    /\ ws_app = 0
    /\ subs = <<[st |-> "starting", closed |-> FALSE]>>
    /\ watchdog = "running"
    /\ wd = NoWd
    /\ stale_reconnects = 0
    /\ rx = NoRx

\* before run_in_thread() is called
FeedIdle ==
    /\ age = STALE_AFTER + 1
    /\ ws_app = 0
    /\ subs = <<>>
    /\ watchdog = "running"
    /\ wd = NoWd
    /\ stale_reconnects = 0
    /\ rx = NoRx

(***************************************************************************)
(* signal_processor.py: the orchestrator.                                  *)
(***************************************************************************)
\* time.sleep(2) after a forced close and after the cancellations
SETTLE_DELAY == 2
\* entry, stop and target offsets of process_signal
ENTRY_OFFSET == 50
SL_OFFSET == 500
TP_OFFSET == 3000

\* the texts of the signals, and the words text.lower() contains
Texts == {"buy", "Buy", "short", "buy short", "tp buy", "take profit", "hold"}
Contains(text, word) ==
    word \in (CASE text = "buy" -> {"buy"}
                [] text = "Buy" -> {"buy"}
                [] text = "short" -> {"short"}
                [] text = "buy short" -> {"buy", "short"}
                [] text = "tp buy" -> {"tp", "buy"}
                [] text = "take profit" -> {"take profit"}
                [] OTHER -> {})

\* a signal document: its text, its price (a number, a string float()
\* rejects, or blank: None or whitespace), and whether the zones have a min
Blank == [k |-> "blank", v |-> 0]
Signal(text, price, supply, demand) ==
    [text |-> text, price |-> price, supply |-> supply, demand |-> demand]
NoSignal == Signal("", Blank, FALSE, FALSE)

\* SignalProcessor has its own OrderManager (sp_orders) and its own
\* TradeManager; the order_info of a forced close goes into the orders map
\* of that TradeManager's OrderManager, a third map, which no code reads
\* (place_market_order reads it only when force is False).
\* one call the orchestrator makes, in the order made: amount is the size
\* of a market order, the price of an entry order, the stop of a bracket
\* (whose take-profit price is target)
Ev(op, side, amount, ref) ==
    [op |-> op, side |-> side, amount |-> amount, target |-> 0, tif |-> "",
     force |-> FALSE, ref |-> ref]
\* the forced close of a position: the market order place_market_order sends
ForceClose(order, ref) ==
    [op |-> "force_close", side |-> order.side, amount |-> order.amount, target |-> 0,
     tif |-> order.tif, force |-> order.force, ref |-> ref]
Sleep(seconds) == Ev("sleep", "", seconds, "")

\* the gateway calls that raise during one process_signal
FailModes == {"none", "fetch_positions", "create_order", "verify", "fetch_open_orders",
              "cancel_order", "create_limit_order", "modify_bracket"}

\* the outcome of the calls of one forced close under a failure mode
CloseOutcome(fail) ==
    IF fail = "create_order" THEN "create_fails"
    ELSE IF fail = "verify" THEN "fetch_fails" ELSE "ok"

\* the gateway's positions without the position a filled close order closed
WithoutPosition(positions, id) ==
    LET Keep(p) == p.id # id IN SelectSeq(positions, Keep)

(***************************************************************************)
(* The loop of process_signal over the positions fetched (lines 159-178),  *)
(* from the i-th on: a position of the traded instrument on the side       *)
(* opposite to new_side is closed by a forced market order, followed by    *)
(* the settle delay.  float(size) is not guarded here: a size that does    *)
(* not parse raises, and so does a failing place_market_order; the except  *)
(* clause around the loop ends it.  st: the log so far, the gateway's      *)
(* positions, and whether the loop was ended by an exception.              *)
(***************************************************************************)
RECURSIVE close_opposite(_, _, _, _, _)
close_opposite(fetched, i, new_side, fail, st) ==
    IF i > Len(fetched) \/ st.aborted THEN st
    ELSE LET pos == fetched[i]
             size == SizeOf(pos)
             opposite == \/ new_side = "buy" /\ size < 0
                         \/ new_side = "sell" /\ size > 0
             pmo == place_market_order_forced(new_side, Abs(size), "ioc", CloseOutcome(fail))
         IN close_opposite(fetched, i + 1, new_side, fail,
              IF ~IsTraded(pos.symbol) THEN st
              ELSE IF pos.size.k # "num" THEN [st EXCEPT !.aborted = TRUE]
              ELSE IF ~opposite THEN st
              ELSE IF pmo.outcome = "raised"
                   THEN [log |-> st.log \o <<ForceClose(pmo.sent[1], pos.id)>>,
                         positions |-> IF pmo.created
                                       THEN WithoutPosition(st.positions, pos.id)
                                       ELSE st.positions,
                         aborted |-> TRUE]
                   ELSE [log |-> st.log \o <<ForceClose(pmo.sent[1], pos.id),
                                             Sleep(SETTLE_DELAY)>>,
                         positions |-> WithoutPosition(st.positions, pos.id),
                         aborted |-> FALSE])

(***************************************************************************)
(* The loop of the take-profit branch (lines 108-143): a position of the   *)
(* traded instrument that is in loss at the live price is closed by a      *)
(* forced market order.  An entry that does not parse skips the position,  *)
(* a size that does not parse counts as 0; a failing place_market_order    *)
(* ends the loop.                                                          *)
(***************************************************************************)
RECURSIVE close_losing(_, _, _, _, _)
close_losing(fetched, i, live_price, fail, st) ==
    IF i > Len(fetched) \/ st.aborted THEN st
    ELSE LET pos == fetched[i]
             size == SizeOf(pos)
             side == IF size > 0 THEN "sell" ELSE "buy"
             losing == \/ size > 0 /\ live_price - pos.entry.v < 0
                       \/ size < 0 /\ pos.entry.v - live_price < 0
             pmo == place_market_order_forced(side, Abs(size), "ioc", CloseOutcome(fail))
         IN close_losing(fetched, i + 1, live_price, fail,
              IF ~IsTraded(pos.symbol) \/ pos.entry.k # "num" \/ ~losing THEN st
              ELSE [log |-> st.log \o <<ForceClose(pmo.sent[1], pos.id)>>,
                    positions |-> IF pmo.created
                                  THEN WithoutPosition(st.positions, pos.id)
                                  ELSE st.positions,
                    aborted |-> pmo.outcome = "raised"])

(***************************************************************************)
(* cancel_conflicting_orders and cancel_same_side_orders: each fetches the *)
(* open orders and sends a cancel for those with status open whose side    *)
(* is not (is) new_side; a failing cancel is logged and the loop goes on.  *)
(* With new_side None, new_side.lower() raises at the first order and the  *)
(* outer except ends the function.  st: the log and the gateway's orders.  *)
(***************************************************************************)
RECURSIVE cancel_orders(_, _, _, _, _, _)
cancel_orders(fetched, i, new_side, same, fail, st) ==
    IF i > Len(fetched) \/ new_side = "" THEN st
    ELSE LET order == fetched[i]
             selected == /\ order.status = "open"
                         /\ (order.side = new_side) = same
             Keep(o) == o.id # order.id
         IN cancel_orders(fetched, i + 1, new_side, same, fail,
              IF ~selected THEN st
              ELSE [log |-> st.log \o <<Ev("cancel_order", order.side, 0, order.id)>>,
                    orders |-> IF fail = "cancel_order" THEN st.orders
                               ELSE SelectSeq(st.orders, Keep)])

cancel_conflicting_orders(new_side, fail, st) ==
    IF fail = "fetch_open_orders" THEN st
    ELSE cancel_orders(st.orders, 1, new_side, FALSE, fail, st)

cancel_same_side_orders_unlessFailed(new_side, fail, st) ==
    IF fail \in {"fetch_open_orders", "cancel_order"} THEN st
    ELSE cancel_orders(st.orders, 1, new_side, TRUE, fail, st)
cancel_same_side_orders(new_side, fail, st) ==
    IF fail = "fetch_open_orders" THEN st
    ELSE cancel_orders(st.orders, 1, new_side, TRUE, fail, st)

\* open_pending_order_exists: False when the query raises
open_pending_order_exists(orders, side, fail) ==
    /\ fail # "fetch_open_orders"
    /\ \E i \in 1..Len(orders) : orders[i].side = side /\ orders[i].status = "open"

\* signals_are_different(new_signal, old_signal)
signals_are_different_whole(new_signal, old_signal) ==
    old_signal = NoSignal \/ new_signal # old_signal
signals_are_different(new_signal, old_signal) ==
    old_signal = NoSignal \/ new_signal.text # old_signal.text

\* the ids the gateway gives the entry orders of a run, in order
OrderIdSeq == <<"n1">>
Order(id, side, status) == [id |-> id, side |-> side, status |-> status]

(***************************************************************************)
(* OrderManager.is_order_open(symbol, side).  orders, fetch_ok: what the   *)
(* gateway's fetch_open_orders returns, or that it raises; cache:          *)
(* self.orders.  The loop over the gateway's orders returns True at an     *)
(* open order of the side; when it finds none, and when the query raised,  *)
(* the function goes on to the loop over the local cache.                  *)
(***************************************************************************)
is_order_open(orders, fetch_ok, cache, symbol, side) ==
    \/ /\ fetch_ok
       /\ \E i \in 1..Len(orders) : orders[i].side = side /\ orders[i].status = "open"
    \/ \E id \in DOMAIN cache :
           /\ cache[id].symbol = symbol
           /\ cache[id].side = side
           /\ cache[id].status = "open"

\* what process_signal leaves behind: the calls it made, the gateway's
\* positions and orders, the local order cache, and how it ended: with an
\* order returned, with None, or by an exception
SignalOutcome(log, positions, orders, next_id, cache, result) ==
    [log |-> log, positions |-> positions, orders |-> orders, next_id |-> next_id,
     cache |-> cache, result |-> result]

\* the side of the intent: "short" before "buy", None ("") otherwise
NewSide_buyFirst(text) ==
    IF Contains(text, "buy") THEN "buy"
    ELSE IF Contains(text, "short") THEN "sell" ELSE ""
NewSide(text) ==
    IF Contains(text, "short") THEN "sell"
    ELSE IF Contains(text, "buy") THEN "buy" ELSE ""
IsTakeProfit(text) == Contains(text, "take profit") \/ Contains(text, "tp")

\* raw_price after the fallback: the signal's price unless it is None or
\* blank, and then the live price
ResolvePrice_live(signal, live) == Num(live)
ResolvePrice(signal, live) ==
    IF signal.price.k = "blank" THEN Num(live) ELSE signal.price

\* buy: price - 50 / sell: price + 50
EntryPrice_oneSided(new_side, price) == price + ENTRY_OFFSET
EntryPrice(new_side, price) ==
    IF new_side = "buy" THEN price - ENTRY_OFFSET ELSE price + ENTRY_OFFSET
SlPrice(new_side, price) ==
    IF new_side = "buy" THEN price - SL_OFFSET ELSE price + SL_OFFSET
TpPrice(new_side, price) ==
    IF new_side = "buy" THEN price + TP_OFFSET ELSE price - TP_OFFSET

(***************************************************************************)
(* process_signal(signal_data), with live the feed's current_price, the    *)
(* gateway's positions and open orders, the number of ids it has handed    *)
(* out, the orchestrator's order cache, and the gateway calls that fail.   *)
(***************************************************************************)
LimitOrder_ioc(side, price) == [Ev("place_order", side, price, "") EXCEPT !.tif = "ioc"]

\* order_manager.place_order(symbol, side, 1, entry_price, time_in_force gtc)
LimitOrder(side, price) == [Ev("place_order", side, price, "") EXCEPT !.tif = "gtc"]

process_signal(signal, live, positions, orders, next_id, cache, fail) ==
    LET text == signal.text
        no_price == signal.price.k = "blank" /\ live = NoPrice
        raw_price == ResolvePrice(signal, live)
        new_side == NewSide(text)
        st0 == [log |-> <<>>, positions |-> positions, aborted |-> FALSE]
        \* the take-profit branch
        tp == IF fail = "fetch_positions" THEN st0
              ELSE close_losing(positions, 1, live, fail, st0)
        \* the directional branch
        c == IF fail = "fetch_positions" THEN st0
             ELSE close_opposite(positions, 1, new_side, fail, st0)
        k1 == cancel_conflicting_orders(new_side, fail, [log |-> c.log, orders |-> orders])
        k2 == cancel_same_side_orders(new_side, fail, k1)
        log2 == k2.log \o <<Sleep(SETTLE_DELAY)>>
        entry_price == EntryPrice(new_side, raw_price.v)
        id == IF next_id < Len(OrderIdSeq) THEN OrderIdSeq[next_id + 1] ELSE ""
        log3 == log2 \o <<LimitOrder(new_side, entry_price)>>
        orders3 == Append(k2.orders, Order(id, new_side, "open"))
        cache3 == DictPut(cache, id, CacheOrder("BTCUSD", new_side, "open", FALSE, 0))
        bracket == Ev("attach_bracket", new_side, SlPrice(new_side, raw_price.v), id)
        log4 == log3 \o <<[bracket EXCEPT !.target = TpPrice(new_side, raw_price.v)]>>
        cache4 == DictPut(cache, id, CacheOrder("BTCUSD", new_side, "open", TRUE, 0))
    IN IF no_price
       THEN SignalOutcome(<<>>, positions, orders, next_id, cache, "none")
       ELSE IF IsTakeProfit(text)
       THEN IF live = NoPrice
            THEN SignalOutcome(<<>>, positions, orders, next_id, cache, "none")
            ELSE SignalOutcome(tp.log, tp.positions, orders, next_id, cache, "none")
       ELSE IF new_side # "" /\ open_pending_order_exists(k2.orders, new_side, fail)
       THEN SignalOutcome(log2, c.positions, k2.orders, next_id, cache, "none")
       ELSE IF ~signal.supply \/ ~signal.demand \/ new_side = ""
       THEN SignalOutcome(log2, c.positions, k2.orders, next_id, cache, "none")
       ELSE IF raw_price.k # "num"
       THEN SignalOutcome(log2, c.positions, k2.orders, next_id, cache, "raised")
       ELSE IF fail = "create_limit_order"
       THEN SignalOutcome(log3, c.positions, k2.orders, next_id, cache, "none")
       ELSE IF fail = "modify_bracket"
       THEN SignalOutcome(log4, c.positions, orders3, next_id + 1, cache3, "none")
       ELSE SignalOutcome(log4, c.positions, orders3, next_id + 1, cache4, "order")

\* self.last_signal = signal_data, the statement after process_signal: it
\* runs whatever process_signal returned, and not when it raised
LastProcessed_onSuccess(last, signal, result) ==
    IF result = "order" THEN signal ELSE last
LastProcessed(last, signal, result) ==
    IF result = "raised" THEN last ELSE signal

NoPoll == [n |-> 0, present |-> FALSE, signal |-> NoSignal, executed |-> FALSE,
           fail |-> "none", log |-> <<>>, result |-> "none"]

\* SignalProcessor.__init__, and a gateway with no position and no order
OrchIdle ==
    /\ gw_positions = <<>>
    /\ gw_orders = <<>>
    /\ gw_next_id = 0
    /\ last_signal = NoSignal
    /\ sp_orders = EmptyDict
    /\ sp = "running"
    /\ poll = NoPoll

NoCall == [op |-> "none", pos |-> Position("p1", Junk, Junk), live |-> 0,
           first |-> <<>>, ret |-> NoneRet, sent |-> <<>>, result |-> "none"]

\* ProfitTrailing.__init__, before track() runs
TrackInit ==
    /\ position_max_profit = EmptyDict
    /\ position_trailing_stop = EmptyDict
    /\ pt_orders = EmptyDict
    /\ current_price = NoPrice
    /\ cached_positions = <<>>
    /\ since_fetch = POSITION_FETCH_INTERVAL
    /\ engine = "waiting"
    /\ wait_time = 0
    /\ tick = NoTick

EvalInit ==
    /\ TrackInit
    /\ FeedIdle
    /\ OrchIdle
    /\ call = NoCall

CallUpdateTrailingStop(pos, live_price) ==
    LET r == update_trailing_stop(pos, live_price, position_max_profit, position_trailing_stop)
    IN /\ position_max_profit' = r.mp
       /\ position_trailing_stop' = r.ts
       /\ call' = [op |-> "update_trailing_stop", pos |-> pos, live |-> live_price,
                   first |-> <<>>, ret |-> r.ret, sent |-> <<>>, result |-> "returned"]
       /\ UNCHANGED <<pt_orders, trackVars, feedVars, gwVars, sigVars>>

\* update_trailing_stop called twice in a row with the same arguments, as
\* track() does for a position: for the display, then in book_profit.
\* first: what the first call returned and stored.
CallUpdateTrailingStopTwice(pos, live_price) ==
    LET r1 == update_trailing_stop(pos, live_price, position_max_profit,
                                   position_trailing_stop)
        r2 == update_trailing_stop(pos, live_price, r1.mp, r1.ts)
    IN /\ position_max_profit' = r2.mp
       /\ position_trailing_stop' = r2.ts
       /\ call' = [op |-> "update_trailing_stop", pos |-> pos, live |-> live_price,
                   first |-> <<r1>>, ret |-> r2.ret, sent |-> <<>>,
                   result |-> "returned"]
       /\ UNCHANGED <<pt_orders, trackVars, feedVars, gwVars, sigVars>>

CallBookProfit(pos, live_price, gw) ==
    LET r == book_profit(pos, live_price, position_max_profit, position_trailing_stop, gw)
    IN /\ position_max_profit' = r.mp
       /\ position_trailing_stop' = r.ts
       /\ pt_orders' = IF r.recorded = <<>> THEN pt_orders
                       ELSE DictPut(pt_orders, MarketOrderId(pos), r.recorded[1])
       /\ call' = [op |-> "book_profit", pos |-> pos, live |-> live_price,
                   first |-> <<>>, ret |-> r.ret, sent |-> r.sent, result |-> r.result]
       /\ UNCHANGED <<trackVars, feedVars, gwVars, sigVars>>

\* self.position_trailing_stop.clear(), as track() does when no position is open
ClearTrailingStops ==
    /\ position_trailing_stop # EmptyDict
    /\ position_trailing_stop' = EmptyDict
    /\ UNCHANGED <<position_max_profit, pt_orders, call>>
    /\ UNCHANGED <<trackVars, feedVars, gwVars, sigVars>>

EvalNext ==
    \/ \E pos \in PosPool, live_price \in Prices : CallUpdateTrailingStop(pos, live_price)
    \/ \E pos \in PosPool, live_price \in Prices :
           CallUpdateTrailingStopTwice(pos, live_price)
    \/ \E pos \in PosPool, live_price \in Prices, gw \in GwOutcomes :
           CallBookProfit(pos, live_price, gw)
    \/ ClearTrailingStops

EvalSpec == EvalInit /\ [][EvalNext]_vars

\* the wait for the first price before the loop
TrackWait ==
    /\ engine = "waiting"
    /\ IF current_price = NoPrice /\ wait_time < MAX_WAIT
       THEN /\ wait_time' = wait_time + WAIT_STEP
            /\ engine' = engine
       ELSE /\ wait_time' = wait_time
            /\ engine' = IF current_price = NoPrice THEN "exited" ELSE "running"
    /\ UNCHANGED <<storeVars, call, current_price, cached_positions, since_fetch, tick>>
    /\ UNCHANGED <<feedVars, gwVars, sigVars>>

(***************************************************************************)
(* One iteration of the while True loop of track().  positions, fetch_ok:  *)
(* what the gateway's fetch_positions returns, or that it raises, if the   *)
(* refresh is due; gws[i]: the outcome of the gateway calls of the forced  *)
(* close of the i-th cached position, if one is made.  The loop's clock    *)
(* advances by the sleeps of the iteration.                                *)
\* current_time - self.last_position_fetch_time >= self.position_fetch_interval
RefreshDue_always(elapsed) == TRUE
RefreshDue(elapsed) == elapsed >= POSITION_FETCH_INTERVAL

(***************************************************************************)
Tick(positions, fetch_ok, gws) ==
    /\ engine = "running"
    /\ LET due == RefreshDue(since_fetch)
           cached == IF due THEN fetch_open_positions(positions, fetch_ok)
                            ELSE cached_positions
           elapsed == IF due THEN 0 ELSE since_fetch
           ts0 == IF cached = <<>> THEN EmptyDict ELSE position_trailing_stop
           st0 == [mp |-> position_max_profit, ts |-> ts0, orders |-> pt_orders,
                   sent |-> <<>>,
                   evaluated |-> {}, closed |-> {}, slept |-> 0, crashed |-> FALSE]
       IN /\ cached_positions' = cached
          /\ IF current_price = NoPrice
             THEN \* continue, without the sleep
                  /\ position_trailing_stop' = ts0
                  /\ since_fetch' = elapsed
                  /\ tick' = [refreshed |-> due, fetch_ok |-> due => fetch_ok,
                              evaluated |-> {}, sent |-> <<>>, closed |-> {}]
                  /\ UNCHANGED <<position_max_profit, pt_orders, engine>>
             ELSE \E st \in {track_positions(cached, 1, current_price, st0, gws)} :
                  /\ position_max_profit' = st.mp
                  /\ position_trailing_stop' = st.ts
                  /\ pt_orders' = st.orders
                  /\ engine' = IF st.crashed THEN "crashed" ELSE "running"
                  /\ since_fetch' = Min(POSITION_FETCH_INTERVAL,
                                        elapsed + st.slept + (IF st.crashed THEN 0 ELSE 1))
                  /\ tick' = [refreshed |-> due, fetch_ok |-> due => fetch_ok,
                              evaluated |-> st.evaluated, sent |-> st.sent,
                              closed |-> st.closed]
    /\ UNCHANGED <<call, current_price, wait_time>>
    /\ UNCHANGED <<feedVars, gw_orders, gw_next_id, sigVars>>

\* an iteration in which the refresh is due, and one that uses the cache
TickRefresh(positions, fetch_ok, gws) ==
    /\ RefreshDue(since_fetch)
    /\ Tick(positions, fetch_ok, gws)
    /\ UNCHANGED gw_positions
TickCached(gws) ==
    /\ ~RefreshDue(since_fetch)
    /\ Tick(<<>>, TRUE, gws)
    /\ UNCHANGED gw_positions

\* binance_ws.on_message as the engine sees it: current_price = price
FeedSetsPrice(price) ==
    /\ current_price # price
    /\ current_price' = price
    /\ UNCHANGED <<storeVars, call, cached_positions, since_fetch, engine, wait_time, tick>>
    /\ UNCHANGED <<feedVars, gwVars, sigVars>>

\* the lists of positions the gateway reports to the engine: under p1 a
\* long or a position whose entry does not parse, under p2 a short, a
\* position whose size does not parse, or one of another instrument
L1 == Position("p1", Num(50000), Num(1))
S2 == Position("p2", Num(52000), Num(-2))
BadEntry1 == Position("p1", Junk, Num(1))
BadSize2 == Position("p2", Num(52000), Junk)
Other2 == [S2 EXCEPT !.symbol = "ETHUSD"]
TrackLists == {<<>>, <<L1>>, <<S2>>, <<L1, S2>>, <<S2, L1>>, <<BadEntry1, S2>>,
               <<S2, BadEntry1>>, <<L1, BadSize2>>, <<L1, Other2>>}
TrackPrices == {PriceSeq[i] : i \in 1..NumTrackPrices}
GwSeqs == {<<"ok", "ok">>, <<"create_fails", "ok">>, <<"fetch_fails", "ok">>,
           <<"ok", "create_fails">>, <<"ok", "fetch_fails">>}

TrackNext ==
    \/ TrackWait
    \/ \E positions \in TrackLists, gws \in GwSeqs : TickRefresh(positions, TRUE, gws)
    \/ \E gws \in GwSeqs : TickRefresh(<<>>, FALSE, gws)
    \/ \E gws \in GwSeqs : TickCached(gws)
    \/ \E price \in TrackPrices : FeedSetsPrice(price)

\* the engine alone: the feed is only what sets the price
EngineInit ==
    /\ TrackInit
    /\ FeedIdle
    /\ OrchIdle
    /\ call = NoCall

TrackSpec == EngineInit /\ [][TrackNext]_vars

(***************************************************************************)
(* The orchestrator's loop and the gateway it talks to.                    *)
(***************************************************************************)
notOrchVars == <<storeVars, call, trackVars, feedVars>>

(***************************************************************************)
(* One iteration of process_signals_loop.  present, signal: what           *)
(* fetch_signal returns (None when the key is absent or the bus fails);    *)
(* fail: the gateway calls that raise while the signal is processed.       *)
(* last_signal is assigned after process_signal returns; an exception out  *)
(* of process_signal is not caught and ends the loop.                      *)
(***************************************************************************)
Poll(present, signal, fail) ==
    /\ sp = "running"
    /\ IF present /\ signals_are_different(signal, last_signal)
       THEN \E r \in {process_signal(signal, current_price, gw_positions, gw_orders,
                                     gw_next_id, sp_orders, fail)} :
            /\ r.next_id <= Len(OrderIdSeq)
            /\ gw_positions' = r.positions
            /\ gw_orders' = r.orders
            /\ gw_next_id' = r.next_id
            /\ sp_orders' = r.cache
            /\ last_signal' = LastProcessed(last_signal, signal, r.result)
            /\ sp' = IF r.result = "raised" THEN "crashed" ELSE "running"
            /\ poll' = [n |-> 1 - poll.n, present |-> TRUE, signal |-> signal,
                        executed |-> TRUE, fail |-> fail, log |-> r.log,
                        result |-> r.result]
       ELSE /\ poll' = [n |-> 1 - poll.n, present |-> present,
                        signal |-> IF present THEN signal ELSE NoSignal,
                        executed |-> FALSE, fail |-> "none", log |-> <<>>,
                        result |-> "none"]
            /\ UNCHANGED <<gwVars, last_signal, sp_orders, sp>>
    /\ UNCHANGED notOrchVars

PollNothing == Poll(FALSE, NoSignal, "none")

\* the feed sets the live price the orchestrator falls back to
LivePrice(price) ==
    /\ current_price # price
    /\ current_price' = price
    /\ UNCHANGED <<storeVars, call, cached_positions, since_fetch, engine, wait_time, tick>>
    /\ UNCHANGED <<feedVars, gwVars, sigVars>>

\* the account changes at the gateway: positions open, fill or are closed
GatewayPositions(positions) ==
    /\ gw_positions # positions
    /\ gw_positions' = positions
    /\ UNCHANGED <<gw_orders, gw_next_id, sigVars, notOrchVars>>

\* resting orders are placed, filled or cancelled at the gateway
GatewayOrders(orders) ==
    /\ gw_orders # orders
    /\ gw_orders' = orders
    /\ UNCHANGED <<gw_positions, gw_next_id, sigVars, notOrchVars>>

\* the signals on the bus: same text with another price, a price that
\* does not parse, no price, a take-profit text, a text with no side, a
\* signal without its supply zone, and texts in other spellings
SignalSeq ==
    <<Signal("buy", Num(50000), TRUE, TRUE), Signal("buy short", Num(50000), TRUE, TRUE),
      Signal("buy", Num(51000), FALSE, TRUE), Signal("buy", Junk, TRUE, TRUE),
      Signal("buy", Blank, TRUE, TRUE), Signal("tp buy", Num(50000), TRUE, TRUE),
      Signal("hold", Num(50000), TRUE, TRUE), Signal("buy", Num(51000), TRUE, FALSE),
      Signal("Buy", Num(50000), TRUE, TRUE), Signal("short", Num(50000), TRUE, TRUE)>>
Signals == {SignalSeq[i] : i \in 1..NumSignals}

\* the positions the account holds while signals are processed
BadSize1 == Position("p1", Num(50000), Junk)
L2 == Position("p2", Num(51000), Num(1))
OrchLists == {<<>>, <<S2>>, <<L1, S2>>, <<BadSize1, S2>>, <<L1, L2>>}
\* the open orders resting at the gateway
OpenOrderLists == {<<>>,
                   <<Order("o1", "sell", "open"), Order("o2", "buy", "open"),
                     Order("o3", "sell", "open")>>,
                   <<Order("o1", "buy", "pending")>>}
LivePrices == {NoPrice, PriceSeq[1]}

SignalNext ==
    \/ PollNothing
    \/ \E signal \in Signals, fail \in FailModes : Poll(TRUE, signal, fail)
    \/ \E price \in LivePrices : LivePrice(price)
    \/ \E positions \in OrchLists : GatewayPositions(positions)
    \/ \E orders \in OpenOrderLists : GatewayOrders(orders)

\* the orchestrator alone, before its first poll
SignalInit ==
    /\ TrackInit
    /\ FeedIdle
    /\ OrchIdle
    /\ call = NoCall

SignalSpec == SignalInit /\ [][SignalNext]_vars

(***************************************************************************)
(* Direct calls of OrderManager.is_order_open, on every combination of     *)
(* open orders at the gateway and records in the local cache.              *)
(***************************************************************************)
QueryOrderLists == OpenOrderLists \cup {<<Order("o1", "buy", "open")>>}
CachePool ==
    {EmptyDict} \cup
    {DictPut(EmptyDict, "n1", CacheOrder(symbol, side, status, TRUE, 0)) :
         symbol \in {"BTCUSD", "ETHUSD"}, side \in {"buy", "sell"},
         status \in {"open", "canceled"}}
Sides == {"buy", "sell"}

QueryInit ==
    /\ TrackInit
    /\ FeedIdle
    /\ call = NoCall
    /\ gw_positions = <<>>
    /\ gw_orders \in QueryOrderLists
    /\ gw_next_id = 0
    /\ last_signal = NoSignal
    /\ sp_orders \in CachePool
    /\ sp = "running"
    /\ poll = NoPoll

CallIsOrderOpen(side, fetch_ok) ==
    /\ call' = [op |-> "is_order_open", side |-> side, fetch_ok |-> fetch_ok,
                result |-> is_order_open(gw_orders, fetch_ok, sp_orders, "BTCUSD", side)]
    /\ UNCHANGED <<storeVars, trackVars, feedVars, gwVars, sigVars>>

\* the ids the calls are made with: one the map may hold, one it never holds
QueryIds == {"n1", "x1"}

\* direct calls of the functions of OrderManager that change self.orders;
\* before: the map before the call
OrderCall(op, order_id, ok, r) ==
    /\ sp_orders' = r.cache
    /\ call' = [op |-> op, id |-> order_id, ok |-> ok, before |-> sp_orders,
                sent |-> r.sent, result |-> r.result]
    /\ UNCHANGED <<storeVars, trackVars, feedVars, gwVars, last_signal, sp, poll>>

CallPlaceOrder(side, ok) ==
    OrderCall("place_order", "n2", ok, place_order("BTCUSD", side, "n2", sp_orders, ok))
CallAttachBracket(order_id, ok) ==
    OrderCall("attach_bracket_to_order", order_id, ok,
              attach_bracket_to_order(order_id, sp_orders, ok))
CallModifyBracket(order_id) ==
    OrderCall("modify_bracket_order", order_id, TRUE,
              modify_bracket_order(order_id, sp_orders))
CallCancelOrder(order_id, ok) ==
    OrderCall("cancel_order", order_id, ok, cancel_order(order_id, sp_orders, ok))

QueryNext ==
    \/ \E side \in Sides, fetch_ok \in BOOLEAN : CallIsOrderOpen(side, fetch_ok)
    \/ \E side \in Sides, ok \in BOOLEAN : CallPlaceOrder(side, ok)
    \/ \E order_id \in QueryIds, ok \in BOOLEAN : CallAttachBracket(order_id, ok)
    \/ \E order_id \in QueryIds : CallModifyBracket(order_id)
    \/ \E order_id \in QueryIds, ok \in BOOLEAN : CallCancelOrder(order_id, ok)

QuerySpec == QueryInit /\ [][QueryNext]_vars

(***************************************************************************)
(* Direct calls of TradeManager.place_market_order on the engine's         *)
(* TradeManager, with the account, the open orders and the order map in    *)
(* every combination of the pools below.                                   *)
(***************************************************************************)
GuardPositions == {<<>>, <<L1>>, <<S2>>, <<BadSize1, Other2>>}
GuardOrders == {<<>>, <<Order("o1", "buy", "open")>>, <<Order("o1", "sell", "pending")>>}
\* an order map with one record, written at second 40 or at second 100
GuardCaches ==
    {EmptyDict} \cup
    {DictPut(EmptyDict, "m1", CacheOrder("BTCUSD", side, status, FALSE, timestamp)) :
         side \in Sides, status \in {"open", "pending", "closed"}, timestamp \in {40, 100}}
\* time.time() at the call: the record of second 40 is 60 or 61 seconds old
GuardTimes == {100, 101}

NoGuardCall == [op |-> "none", n |-> 0, side |-> "", force |-> FALSE, current_time |-> 0,
                pos_ok |-> TRUE, orders_ok |-> TRUE, sent |-> <<>>, result |-> "none"]

GuardInit ==
    /\ position_max_profit = EmptyDict
    /\ position_trailing_stop = EmptyDict
    /\ pt_orders \in GuardCaches
    /\ current_price = NoPrice
    /\ cached_positions = <<>>
    /\ since_fetch = POSITION_FETCH_INTERVAL
    /\ engine = "waiting"
    /\ wait_time = 0
    /\ tick = NoTick
    /\ FeedIdle
    /\ call = NoGuardCall
    /\ gw_positions \in GuardPositions
    /\ gw_orders \in GuardOrders
    /\ gw_next_id = 0
    /\ last_signal = NoSignal
    /\ sp_orders = EmptyDict
    /\ sp = "running"
    /\ poll = NoPoll

CallPlaceMarketOrder(side, force, current_time, pos_ok, orders_ok, gw) ==
    /\ \A id \in DOMAIN pt_orders : pt_orders[id].timestamp <= current_time
    /\ LET r == place_market_order(side, 1, "ioc", force, current_time, gw_positions,
                                   pos_ok, gw_orders, orders_ok, pt_orders, gw)
       IN /\ pt_orders' = r.cache
          /\ call' = [op |-> "place_market_order", n |-> 1 - call.n, side |-> side,
                      force |-> force, current_time |-> current_time,
                      pos_ok |-> pos_ok, orders_ok |-> orders_ok,
                      sent |-> r.sent, result |-> r.result]
    /\ UNCHANGED <<position_max_profit, position_trailing_stop>>
    /\ UNCHANGED <<trackVars, feedVars, gwVars, sigVars>>

GuardNext ==
    \E side \in Sides, force \in BOOLEAN, current_time \in GuardTimes,
       pos_ok \in BOOLEAN, orders_ok \in BOOLEAN, gw \in GwOutcomes :
        CallPlaceMarketOrder(side, force, current_time, pos_ok, orders_ok, gw)

GuardSpec == GuardInit /\ [][GuardNext]_vars

(***************************************************************************)
(* main.py: the engine and the orchestrator run as two threads against     *)
(* one account.  A market order the gateway accepts closes its position.   *)
(***************************************************************************)
EngineTick(gws) ==
    /\ Tick(gw_positions, TRUE, gws)
    /\ LET Open(p) == p.id \notin tick'.closed
       IN gw_positions' = SelectSeq(gw_positions, Open)

ConcSignals == {SignalSeq[1], SignalSeq[2]}

\* the account holds a long and a short when the threads start
ConcInit ==
    /\ TrackInit
    /\ FeedIdle
    /\ call = NoCall
    /\ gw_positions = <<L1, S2>>
    /\ gw_orders = <<>>
    /\ gw_next_id = 0
    /\ last_signal = NoSignal
    /\ sp_orders = EmptyDict
    /\ sp = "running"
    /\ poll = NoPoll

ConcNext ==
    \/ TrackWait
    \/ \E gws \in GwSeqs : EngineTick(gws)
    \/ \E price \in TrackPrices : LivePrice(price)
    \/ PollNothing
    \/ \E signal \in ConcSignals : Poll(TRUE, signal, "none")

ConcSpec == ConcInit /\ [][ConcNext]_vars

(***************************************************************************)
(* The threads of binance_ws.py.                                           *)
(***************************************************************************)
notFeedVars == <<storeVars, call, cached_positions, since_fetch, engine, wait_time, tick,
                 gwVars, sigVars>>

\* start_websocket() in its thread: ws_app = WebSocketApp(...), run_forever()
StartWebsocket(k) ==
    /\ k \in 1..Len(subs)
    /\ subs[k].st = "starting"
    /\ subs' = [subs EXCEPT ![k].st = "running"]
    /\ ws_app' = k
    /\ UNCHANGED <<current_price, age, watchdog, wd, stale_reconnects, rx, notFeedVars>>

\* on_message up to current_price = trade_data["price"]; a message that is
\* incomplete or does not parse is dropped
OnMessagePrice(k, msg) ==
    /\ k \in 1..Len(subs)
    /\ subs[k].st = "running"
    /\ IF Accepts(msg)
       THEN /\ current_price' = msg.price
            /\ subs' = [subs EXCEPT ![k].st = "stamping"]
       ELSE UNCHANGED <<current_price, subs>>
    /\ rx' = [n |-> 1 - rx.n, sub |-> k, kind |-> msg.kind]
    /\ UNCHANGED <<age, ws_app, watchdog, wd, stale_reconnects, notFeedVars>>

\* on_message's last statement: last_update_time = time.time()
OnMessageStamp(k) ==
    /\ k \in 1..Len(subs)
    /\ subs[k].st = "stamping"
    /\ age' = 0
    /\ stale_reconnects' = 0
    /\ subs' = [subs EXCEPT ![k].st = IF subs[k].closed THEN "ended" ELSE "running"]
    /\ UNCHANGED <<current_price, ws_app, watchdog, wd, rx, notFeedVars>>

\* the connection fails or the server closes it: run_forever() returns
ConnectionLost(k) ==
    /\ k \in 1..Len(subs)
    /\ subs[k].st = "running"
    /\ subs' = [subs EXCEPT ![k].st = "ended"]
    /\ UNCHANGED <<current_price, age, ws_app, watchdog, wd, stale_reconnects, rx,
                   notFeedVars>>

\* ws_app.close() on the subscriptions ss: the one ws_app refers to ends
\* (after the handler it is in), unless close() raises
CloseApp(ss, target, raised) ==
    IF target = 0 \/ raised THEN ss
    ELSE [ss EXCEPT ![target] =
             [st |-> IF @.st = "running" THEN "ended" ELSE @.st, closed |-> TRUE]]

\* try: ws_app.close() except Exception: print(...): the loop goes on
AfterCloseError_propagates(raised) == IF raised THEN "ended" ELSE "running"
AfterCloseError(raised) == "running"

\* the test of monitor_websocket after its sleep
IsStale_atThreshold(seconds) == seconds >= STALE_AFTER
IsStale(seconds) == seconds > STALE_AFTER

(***************************************************************************)
(* One iteration of monitor_websocket: sleep a second; if the last stamp   *)
(* is more than 3 seconds old, close ws_app (close_raises: close() raises; *)
(* it does when ws_app is None) and start start_websocket in a new thread. *)
(***************************************************************************)
WatchdogTick(close_raises) ==
    /\ watchdog = "running"
    /\ LET seconds == Min(age + WATCHDOG_SLEEP, STALE_AFTER + 1)
           stale == IsStale(seconds)
           raised == close_raises \/ ws_app = 0
       IN /\ age' = seconds
          /\ IF stale
             THEN /\ Len(subs) < MaxSubs
                  /\ watchdog' = AfterCloseError(raised)
                  /\ subs' = IF AfterCloseError(raised) = "running"
                             THEN Append(CloseApp(subs, ws_app, raised),
                                         [st |-> "starting", closed |-> FALSE])
                             ELSE CloseApp(subs, ws_app, raised)
                  /\ stale_reconnects' = stale_reconnects + 1
                  /\ wd' = [n |-> 1 - wd.n, stale |-> TRUE, close_target |-> ws_app,
                            close_raised |-> raised,
                            spawned |-> IF AfterCloseError(raised) = "running"
                                        THEN Len(subs) + 1 ELSE 0]
             ELSE /\ ~close_raises
                  /\ wd' = [n |-> 1 - wd.n, stale |-> FALSE, close_target |-> 0,
                            close_raised |-> FALSE, spawned |-> 0]
                  /\ UNCHANGED <<watchdog, subs, stale_reconnects>>
    /\ UNCHANGED <<current_price, ws_app, rx, notFeedVars>>

FeedPrices == {PriceSeq[1], PriceSeq[2]}
FeedMsgs == {Msg("valid", p) : p \in FeedPrices}
                \cup {Msg(kind, PriceSeq[1]) : kind \in MsgKinds \ {"valid"}}

FeedNext ==
    \/ \E k \in 1..MaxSubs : StartWebsocket(k)
    \/ \E k \in 1..MaxSubs, msg \in FeedMsgs : OnMessagePrice(k, msg)
    \/ \E k \in 1..MaxSubs : OnMessageStamp(k)
    \/ \E k \in 1..MaxSubs : ConnectionLost(k)
    \/ \E close_raises \in BOOLEAN : WatchdogTick(close_raises)

\* run_in_thread() has started the subscription and the watchdog
FeedStarted ==
    /\ TrackInit
    /\ FeedInit
    /\ OrchIdle
    /\ call = NoCall

FeedSpec == FeedStarted /\ [][FeedNext]_vars

(***************************************************************************)
(* Claims about update_trailing_stop and book_profit, checked under        *)
(* EvalSpec: every sequence of calls with every position kind and price.   *)
(***************************************************************************)
LongPos == Position("p1", Num(50000), Num(1))
ShortPos == Position("p1", Num(52000), Num(-2))
Evaluated(c) == c.op \in {"update_trailing_stop", "book_profit"} /\ c.ret.rule # "None"

\* C1: monotonic tightening.  In every call that evaluates a position id
\* whose stop is stored (no purge since the evaluation that stored it), the
\* stop stored afterwards is the stop returned, is not below the stored one
\* for a long and not above it for a short; a stored stop changes in no
\* other way while it stays stored.
C1_MonotonicTightening ==
    [][\A id \in (DOMAIN position_trailing_stop) \cap (DOMAIN position_trailing_stop') :
         LET before == position_trailing_stop[id]
             after == position_trailing_stop'[id]
             pos == call'.pos
         IN /\ (after # before) => (pos.id = id /\ Evaluated(call'))
            /\ (pos.id = id /\ Evaluated(call')) => call'.ret.stop = after
            /\ (pos.id = id /\ SizeOf(pos) > 0) => after >= before
            /\ (pos.id = id /\ SizeOf(pos) < 0) => after <= before
      ]_vars

\* a long whose rule fell back to fixed_stop (candidate 49500) keeps the
\* stop 50550 locked before; a short likewise keeps its locked 51100
C1_Witness ==
    \/ /\ call.pos = LongPos /\ call.live = 49400 /\ call.ret.rule = "fixed_stop"
       /\ call.ret.stop = 50550 /\ position_trailing_stop["p1"] = 50550
    \/ /\ call.pos = ShortPos /\ call.live = 52400 /\ call.ret.rule = "fixed_stop"
       /\ call.ret.stop = 51100 /\ position_trailing_stop["p1"] = 51100

\* C2: forced-close trigger.  A book_profit evaluation whose rule is
\* fixed_stop or lock_50 sends exactly one market order for the full
\* absolute size (sell for a long, buy for a short), immediate-or-cancel and
\* forced, when the live price is strictly across the stop just computed,
\* and sends nothing otherwise (live price at the stop included).
C2_ForcedCloseTrigger ==
    (call.op = "book_profit" /\ call.ret.rule \in {"fixed_stop", "lock_50"}) =>
        LET size == SizeOf(call.pos)
            crossed == \/ size > 0 /\ call.live < call.ret.stop
                       \/ size < 0 /\ call.live > call.ret.stop
        IN /\ crossed =>
                call.sent = <<[type |-> "market", symbol |-> "BTCUSD",
                               side |-> IF size > 0 THEN "sell" ELSE "buy",
                               amount |-> IF size > 0 THEN size ELSE -size,
                               tif |-> "ioc", force |-> TRUE]>>
           /\ ~crossed => call.sent = <<>>

\* the case of the spec: long, stop 49500, live 49400, one forced sell of 1
C2_Witness ==
    /\ call.op = "book_profit" /\ call.pos = LongPos
    /\ call.ret.stop = 49500 /\ call.live = 49400
    /\ Len(call.sent) = 1 /\ call.sent[1].side = "sell" /\ call.sent[1].amount = 1

\* live price exactly at the stop: nothing is sent
C2_WitnessAtStop ==
    /\ call.op = "book_profit" /\ call.pos = LongPos
    /\ call.ret.stop = 49500 /\ call.live = 49500 /\ call.sent = <<>>

\* C3: rule selection.  A call with a parsable entry and a non-zero size
\* returns lock_50 exactly when the updated maximum profit is above 1000
\* and the current profit is above 0, and fixed_stop otherwise; the stop
\* returned is the rule's candidate (entry +- max/2, or entry -+ 500),
\* compared with the stored stop when there is one.  A fresh long of entry
\* 50000 gives (lock_50, 50550) at 51100 and (fixed_stop, 49500) at 50200.
C3_RuleSelection ==
    [][\A pos \in PosPool, live_price \in Prices :
         (/\ call'.op = "update_trailing_stop" /\ call'.pos = pos /\ call'.live = live_price
          /\ call' # call
          /\ pos.entry.k = "num" /\ SizeOf(pos) # 0) =>
            LET entry == pos.entry.v
                long == SizeOf(pos) > 0
                profit == IF long THEN live_price - entry ELSE entry - live_price
                mfe == position_max_profit'[pos.id]
                lock == mfe > 1000 /\ profit > 0
                candidate == IF lock
                             THEN (IF long THEN entry + mfe \div 2 ELSE entry - mfe \div 2)
                             ELSE (IF long THEN entry - 500 ELSE entry + 500)
                fresh == pos.id \notin DOMAIN position_trailing_stop
                stored == position_trailing_stop[pos.id]
            IN /\ call'.ret.rule = IF lock THEN "lock_50" ELSE "fixed_stop"
               /\ fresh => call'.ret.stop = candidate
               /\ (~fresh /\ long) => call'.ret.stop = Max(stored, candidate)
               /\ (~fresh /\ ~long) => call'.ret.stop = Min(stored, candidate)
               /\ (fresh /\ pos = LongPos /\ pos.id \notin DOMAIN position_max_profit) =>
                      /\ live_price = 51100 =>
                             (call'.ret.rule = "lock_50" /\ call'.ret.stop = 50550)
                      /\ live_price = 50200 =>
                             (call'.ret.rule = "fixed_stop" /\ call'.ret.stop = 49500)
      ]_vars

C3_Witness ==
    /\ call.op = "update_trailing_stop" /\ call.pos = LongPos /\ call.live = 51100
    /\ call.ret.rule = "lock_50" /\ call.ret.stop = 50550
    /\ position_max_profit["p1"] = 1100

\* maximum profit exactly 1000 with a positive profit: still fixed_stop
C3_WitnessThreshold ==
    /\ call.op = "update_trailing_stop" /\ call.pos = LongPos /\ call.live = 51000
    /\ position_max_profit["p1"] = 1000 /\ call.ret.rule = "fixed_stop"

\* C4: excursion monotonicity.  The maximum profit stored for an id is never
\* negative, stays stored and never decreases from one step to the next.
C4_ExcursionMonotone ==
    /\ [](\A id \in DOMAIN position_max_profit : position_max_profit[id] >= 0)
    /\ [][\A id \in DOMAIN position_max_profit :
             /\ id \in DOMAIN position_max_profit'
             /\ position_max_profit'[id] >= position_max_profit[id]]_vars

\* a call at a loss after a call at a profit: the stored maximum is kept
C4_Witness ==
    /\ call.pos = LongPos /\ call.live = 49400 /\ Evaluated(call)
    /\ position_max_profit["p1"] = 1100

\* C28: update_trailing_stop is idempotent at a fixed price.  The second of
\* two calls in a row for the same position and live price returns the
\* (stop, ratio, rule) the first returned and leaves the stored stops and
\* excursions as the first call left them.
C28_IdempotentAtFixedPrice ==
    [][(/\ call'.op = "update_trailing_stop"
        /\ call'.first # <<>>
        /\ ~(UNCHANGED <<call, position_max_profit>> /\ position_trailing_stop' = EmptyDict))
       => /\ call'.ret = call'.first[1].ret
          /\ position_max_profit' = call'.first[1].mp
          /\ position_trailing_stop' = call'.first[1].ts]_vars

\* two calls in a row on a long 2400 points in profit: both return the
\* lock_50 stop 51200 and the excursion stays 2400
C28_Witness ==
    /\ call.op = "update_trailing_stop" /\ call.first # <<>>
    /\ call.pos = LongPos /\ call.live = 52400
    /\ call.ret.rule = "lock_50" /\ call.ret.stop = 51200
    /\ call.first[1].ret.stop = 51200
    /\ position_max_profit["p1"] = 2400

\* a stop that keeps more than the fixed offset of profit: above
\* entry + 500 for a long, below entry - 500 for a short
KeepsProfit(stop, pos) ==
    /\ SizeOf(pos) > 0 => stop > pos.entry.v + 500
    /\ SizeOf(pos) < 0 => stop < pos.entry.v - 500

\* C33: locked profit is kept.  An evaluation of a long or a short that
\* returns rule lock_50, and every evaluation of it made while the stop
\* stored for its id keeps more than 500 points of profit (as it does from
\* a lock_50 evaluation on, until a purge), returns and stores a stop that
\* keeps more than 500 points of profit, whatever rule it returns.
C33_LockedProfitKept ==
    [][LET pos == call'.pos
           id == pos.id
       IN (/\ Evaluated(call')
           /\ SizeOf(pos) # 0
           /\ position_trailing_stop' # EmptyDict
           /\ \/ call'.ret.rule = "lock_50"
              \/ (id \in DOMAIN position_trailing_stop
                  /\ KeepsProfit(position_trailing_stop[id], pos)))
          => /\ KeepsProfit(call'.ret.stop, pos)
             /\ KeepsProfit(position_trailing_stop'[id], pos)]_vars

\* the long was locked at 51200 (excursion 2400) and is evaluated 600
\* points in loss: the rule is fixed_stop, the stop is still 51200
C33_Witness ==
    /\ call.op \in {"update_trailing_stop", "book_profit"}
    /\ call.pos = LongPos /\ call.live = 49400
    /\ call.ret.rule = "fixed_stop"
    /\ call.ret.stop = 51200
    /\ position_max_profit["p1"] = 2400

(***************************************************************************)
(* Claims about the engine's loop, checked under TrackSpec.                *)
(***************************************************************************)
\* C10: per-position failure isolation.  After an iteration over a cache
\* that holds a position whose entry price does not parse (and in which no
\* order was sent, so no gateway call failed), the loop is still running
\* and every other cached position was evaluated in that iteration.
C10_FailureIsolation ==
    (/\ tick.sent = <<>>
     /\ \E i \in 1..Len(cached_positions) :
            cached_positions[i].entry.k # "num" /\ SizeOf(cached_positions[i]) # 0) =>
        /\ engine = "running"
        /\ \A i \in 1..Len(cached_positions) :
               (cached_positions[i].entry.k = "num" /\ SizeOf(cached_positions[i]) # 0)
                   => cached_positions[i].id \in tick.evaluated

\* every cached position has an entry price that parses, so that no
\* iteration over the cache fails on a malformed position
CacheWellFormed ==
    \A i \in 1..Len(cached_positions) : cached_positions[i].entry.k = "num"

\* C11: a transient gateway failure is never fatal to the engine.  While
\* the cache holds no malformed position, whatever the gateway answers to
\* the forced close or to the position query that follows it, the loop of
\* track() has not been ended by an exception.
C11_GatewayFailureNotFatal ==
    CacheWellFormed => engine # "crashed"

\* C12: the engine's loop runs for the lifetime of the process.  With no
\* price available the engine waits and never returns from track(), so
\* that it evaluates positions once a price arrives.
C12_EngineWaitsForPrice ==
    engine # "exited"

\* C13: a gateway failure during a position refresh is a no-op for that
\* cycle.  An iteration whose refresh is due and whose fetch_positions
\* raises leaves the cached snapshot, the stored stops and the stored
\* excursions as they were.
C13_RefreshFailureIsNoOp ==
    [][(/\ since_fetch >= POSITION_FETCH_INTERVAL
        /\ tick'.refreshed
        /\ ~tick'.fetch_ok)
       => /\ cached_positions' = cached_positions
          /\ position_trailing_stop' = position_trailing_stop
          /\ position_max_profit' = position_max_profit]_vars

\* C14: purge on empty refresh.  An iteration whose refresh succeeds and
\* yields no open position leaves no stored stop and no stored excursion
\* for any position id.
C14_PurgeOnEmptyRefresh ==
    [][(/\ since_fetch >= POSITION_FETCH_INTERVAL
        /\ tick'.refreshed
        /\ tick'.fetch_ok
        /\ cached_positions' = <<>>)
       => /\ position_trailing_stop' = EmptyDict
          /\ position_max_profit' = EmptyDict]_vars

CachedIds == {cached_positions[i].id : i \in 1..Len(cached_positions)}

\* C15: per-id reset.  While other positions are still open, the maps of
\* stored stops and stored excursions hold only ids of positions of the
\* latest snapshot: the entries of an id are removed by the refresh that
\* no longer lists it.
C15_PerIdReset ==
    cached_positions # <<>> =>
        /\ DOMAIN position_trailing_stop \subseteq CachedIds
        /\ DOMAIN position_max_profit \subseteq CachedIds

\* C16: refresh rate limit.  since_fetch is the time the loop has slept
\* since its last refresh.  An iteration fetches the positions (or replaces
\* the snapshot) only when at least 5 seconds have passed since the last
\* refresh, and each iteration before that leaves the snapshot as it is
\* and fetches nothing.
C16_RefreshRateLimit ==
    [][/\ (cached_positions' # cached_positions
           \/ (tick'.refreshed /\ since_fetch' # since_fetch)) => since_fetch >= 5
       /\ (since_fetch < 5 /\ since_fetch' # since_fetch)
              => (~tick'.refreshed /\ cached_positions' = cached_positions)]_vars

\* a second refresh: the snapshot lists the short only, and the long of
\* the snapshot before it was evaluated in between
C16_Witness ==
    /\ tick.refreshed /\ tick.fetch_ok
    /\ cached_positions = <<S2>>
    /\ "p1" \in DOMAIN position_max_profit
    /\ since_fetch < 5

\* C32: no repeated forced close.  An iteration of the engine's loop that
\* evaluates the cached snapshot (no refresh) sends no forced-close order
\* the gateway accepts for a position for which the iteration before it
\* sent one.
C32_NoRepeatedForcedClose ==
    [][(since_fetch' # since_fetch /\ ~tick'.refreshed) =>
         tick'.closed \cap tick.closed = {}]_vars

(***************************************************************************)
(* Claims about the price feed's watchdog, checked under FeedSpec.         *)
(***************************************************************************)
\* C5: staleness bound.  Once a price message has been received and
\* stamped, the watchdog starts at most one new subscription in a period
\* without a further message.
C5_OncePerStalePeriod ==
    (/\ current_price # NoPrice
     /\ \A k \in 1..Len(subs) : subs[k].st # "stamping") => stale_reconnects <= 1

\* C6: watchdog protocol.  The watchdog's loop never ends, and every
\* iteration that finds the last stamp more than 3 seconds old requests
\* the close of the subscription ws_app refers to (which ends it unless
\* close() raises) and starts one new subscription thread, also when
\* close() raises.
C6_WatchdogProtocol ==
    /\ [](watchdog = "running")
    /\ [][(wd'.n # wd.n /\ age + 1 > 3) =>
            /\ wd'.stale /\ wd'.close_target = ws_app
            /\ (ws_app # 0 /\ ~wd'.close_raised) =>
                   (subs'[ws_app].closed /\ subs'[ws_app].st # "running")
            /\ Len(subs') = Len(subs) + 1
            /\ subs'[Len(subs')] = [st |-> "starting", closed |-> FALSE]
            /\ \A k \in 1..Len(subs) : k # ws_app => subs'[k] = subs[k]
            /\ watchdog' = "running"]_vars

\* close() raised on an existing subscription; a new one was started anyway
C6_Witness ==
    /\ wd.stale /\ wd.close_raised /\ wd.close_target # 0
    /\ wd.spawned = Len(subs) /\ subs[wd.spawned].st = "starting"
    /\ watchdog = "running"


\* the subscriptions whose on_message can assign current_price
LiveSubs == {k \in 1..Len(subs) : subs[k].st \in {"running", "stamping"}}

\* C26: single writer of the current price.  At every moment at most one
\* subscription is live and able to assign the current price: a
\* subscription the watchdog replaced is live no longer.
C26_SingleWriter == Cardinality(LiveSubs) <= 1

\* C30: malformed feed messages are dropped.  When on_message is called
\* with a message that lacks a required field, whose price or quantity does
\* not parse, or that is no JSON, the current price and the time of the
\* last update stay as they were and every subscription stays in the state
\* it was in.
C30_MalformedDropped ==
    [][(rx'.n # rx.n /\ rx'.kind # "valid") =>
         /\ current_price' = current_price
         /\ age' = age
         /\ subs' = subs]_vars

\* a message with an unparsable price came after the price 49400 was set:
\* the price stands and the subscription that received it is running
C30_Witness ==
    /\ rx.kind = "bad_price"
    /\ current_price = 49400
    /\ subs[rx.sub].st = "running"

\* a message that lacks a field was received by a running subscription
C30_WitnessMissingField ==
    /\ rx.kind = "missing_field"
    /\ age = 0
    /\ subs[rx.sub].st = "running"

\* C31: atomic price update.  The current price and the time of the last
\* update are replaced together: no step gives the current price a new
\* value and leaves the time of the last update at its previous value, for
\* a reader to see between the two.
C31_AtomicPriceUpdate ==
    [][(current_price' # current_price) => age' = 0]_vars

\* C36: no spurious reconnect.  An iteration of the watchdog that wakes 3
\* seconds or less after the time of the last update closes no
\* subscription and starts none.
C36_NoSpuriousReconnect ==
    [][(wd'.n # wd.n /\ age + WATCHDOG_SLEEP <= 3) =>
         /\ ~wd'.stale /\ wd'.close_target = 0 /\ wd'.spawned = 0
         /\ subs' = subs
         /\ stale_reconnects' = stale_reconnects]_vars

\* the watchdog woke exactly 3 seconds after a valid message was stamped
\* and left the running subscription alone
C36_Witness ==
    /\ wd # NoWd /\ ~wd.stale
    /\ age = 3
    /\ rx.kind = "valid"
    /\ current_price # NoPrice
    /\ LiveSubs # {}

(***************************************************************************)
(* Claims about the orchestrator, checked under SignalSpec.                *)
(***************************************************************************)

\* C7: Signal idempotence.  An iteration of the loop executes
\* process_signal exactly when a signal is read and either none was
\* processed before or its text differs from the text of the last
\* processed signal; a signal with the text of the last processed one but
\* another price or other zones is not executed and leaves last_signal as
\* it is, so that two consecutive signals of one text are executed once.
C7_SignalIdempotence ==
    [][poll'.n # poll.n =>
         /\ poll'.executed <=>
              /\ poll'.present
              /\ (last_signal = NoSignal \/ poll'.signal.text # last_signal.text)
         /\ (poll'.executed /\ poll'.result # "raised") => last_signal' = poll'.signal
         /\ ~poll'.executed => last_signal' = last_signal]_vars

\* a signal with the last processed text and another price was read and skipped
C7_Witness ==
    /\ poll.present
    /\ ~poll.executed
    /\ last_signal # NoSignal
    /\ poll.signal.text = last_signal.text
    /\ poll.signal.price # last_signal.price

IsStep(ev) == ev.op \in {"cancel_order", "place_order", "attach_bracket"}

\* in the log: the forced close of pos on new_side, immediate-or-cancel and
\* forced, directly followed by the settle delay, with no cancellation
\* and no entry step before it
ClosedFirst(log, pos, new_side) ==
    \E i \in 1..Len(log) :
        /\ log[i] = ForceClose(MarketOrder(new_side, Abs(SizeOf(pos)), "ioc", TRUE), pos.id)
        /\ i < Len(log)
        /\ log[i + 1] = Sleep(SETTLE_DELAY)
        /\ \A j \in 1..(i - 1) : ~IsStep(log[j])

OppositeOf(pos, new_side) ==
    /\ IsTraded(pos.symbol)
    /\ pos.size.k = "num"
    /\ \/ new_side = "buy" /\ SizeOf(pos) < 0
       \/ new_side = "sell" /\ SizeOf(pos) > 0

\* C8: Opposite-signal closure ordering.  Whenever a directional signal is
\* processed while the account holds a position of the traded instrument
\* on the opposite side, with size s, the execution issues a forced market
\* close of |s| on the new side (immediate-or-cancel, force=True) followed
\* by the settle delay, before any cancellation or entry step.
C8_ClosureOrdering ==
    [][(/\ poll'.n # poll.n
        /\ poll'.executed
        /\ ~IsTakeProfit(poll'.signal.text)
        /\ NewSide(poll'.signal.text) # "")
       => \A i \in 1..Len(gw_positions) :
             OppositeOf(gw_positions[i], NewSide(poll'.signal.text))
             => ClosedFirst(poll'.log, gw_positions[i], NewSide(poll'.signal.text))]_vars

\* the case of C8 in which the code does what the claim says
C8_ClosedFirstReached ==
    /\ poll.executed
    /\ poll.signal.text = "buy"
    /\ ClosedFirst(poll.log, S2, "buy")
    /\ \E i \in 1..Len(poll.log) : poll.log[i].op = "place_order"

\* the case of C8 in which it does not: the short is listed after a position
\* whose size does not parse, and the entry order is placed without a close
C8_NoCloseReached ==
    /\ poll.executed
    /\ poll.signal.text = "buy"
    /\ gw_positions = <<BadSize1, S2>>
    /\ \A i \in 1..Len(poll.log) : poll.log[i].op # "force_close"
    /\ \E i \in 1..Len(poll.log) : poll.log[i].op = "place_order"

GatewayHasOpen(side) ==
    \E i \in 1..Len(gw_orders) : gw_orders[i].side = side /\ gw_orders[i].status = "open"

\* C18: reference price resolution.  An execution of process_signal that
\* places an entry order computes its price from the signal's price when
\* the signal has a non-blank one, and from the feed's current price
\* otherwise; with a blank price and no current price it makes no call at
\* all: no forced close, no cancellation, no order, and the gateway and
\* the order cache are as before.
C18_ReferencePrice ==
    [][(poll'.n # poll.n /\ poll'.executed) =>
         /\ \A i \in 1..Len(poll'.log) :
               poll'.log[i].op = "place_order" =>
                  LET reference == IF poll'.signal.price.k = "blank"
                                   THEN current_price
                                   ELSE poll'.signal.price.v
                  IN /\ poll'.signal.price.k # "junk"
                     /\ reference # NoPrice
                     /\ poll'.log[i].amount =
                            IF poll'.log[i].side = "buy" THEN reference - 50
                                                         ELSE reference + 50
         /\ (poll'.signal.price.k = "blank" /\ current_price = NoPrice) =>
               /\ poll'.log = <<>>
               /\ poll'.result = "none"
               /\ UNCHANGED <<gwVars, sp_orders>>]_vars

\* a signal without a price was executed with the live price 49400: the
\* buy entry is placed at 49350
C18_Witness ==
    /\ poll.executed
    /\ poll.signal.price = Blank
    /\ current_price = 49400
    /\ \E i \in 1..Len(poll.log) :
           /\ poll.log[i].op = "place_order"
           /\ poll.log[i].side = "buy"
           /\ poll.log[i].amount = 49350

\* a signal without a price was executed while no live price was known
C18_WitnessNoPrice ==
    /\ poll.executed
    /\ poll.signal.price = Blank
    /\ current_price = NoPrice
    /\ poll.log = <<>>
    /\ gw_positions # <<>>

\* pos is an open position of the traded instrument whose profit at the
\* price live is negative
InLoss(pos, live) ==
    /\ IsTraded(pos.symbol)
    /\ pos.entry.k = "num"
    /\ \/ SizeOf(pos) > 0 /\ live < pos.entry.v
       \/ SizeOf(pos) < 0 /\ live > pos.entry.v

\* the log holds the forced close of pos: a market order of its size on
\* the closing side, immediate-or-cancel, force=True
ForceClosed(log, pos) ==
    \E i \in 1..Len(log) :
        log[i] = ForceClose(MarketOrder(IF SizeOf(pos) > 0 THEN "sell" ELSE "buy",
                                        Abs(SizeOf(pos)), "ioc", TRUE), pos.id)

\* C19: take-profit intent.  An execution of process_signal for a text
\* with "take profit" or "tp", with a live price known and the position
\* query answered, sends a forced close for exactly those positions of the
\* traded instrument that are in loss at the live price, and sends no
\* cancellation and no entry order.
C19_TakeProfitIntent ==
    [][(/\ poll'.n # poll.n
        /\ poll'.executed
        /\ IsTakeProfit(poll'.signal.text)
        /\ current_price # NoPrice
        /\ poll'.fail # "fetch_positions")
       => /\ \A i \in 1..Len(gw_positions) :
                 InLoss(gw_positions[i], current_price)
                     <=> ForceClosed(poll'.log, gw_positions[i])
          /\ \A i \in 1..Len(poll'.log) : poll'.log[i].op = "force_close"
          /\ UNCHANGED <<gw_orders, sp_orders>>]_vars

\* C20: directional intent.  In an execution of process_signal for a text
\* without "take profit" and "tp", every forced close and every entry
\* order is on the sell side when the text contains "short" and on the buy
\* side when it contains "buy" and not "short"; when it contains neither,
\* no forced close, no cancellation and no order is sent and the
\* gateway's positions and orders and the order cache are as before.
C20_DirectionalIntent ==
    [][(/\ poll'.n # poll.n
        /\ poll'.executed
        /\ ~IsTakeProfit(poll'.signal.text))
       => LET text == poll'.signal.text
              side == IF Contains(text, "short") THEN "sell"
                      ELSE IF Contains(text, "buy") THEN "buy" ELSE "none"
          IN /\ \A i \in 1..Len(poll'.log) :
                    poll'.log[i].op \in {"force_close", "place_order", "attach_bracket"}
                        => poll'.log[i].side = side
             /\ side = "none" =>
                    /\ \A i \in 1..Len(poll'.log) : poll'.log[i].op = "sleep"
                    /\ poll'.result = "none"
                    /\ UNCHANGED <<gwVars, sp_orders>>]_vars

\* a text with neither word was executed on an account with a position
\* and open orders: nothing but the settle delay happened
C20_Witness ==
    /\ poll.executed
    /\ poll.signal.text = "hold"
    /\ poll.fail = "none"
    /\ poll.log = <<Sleep(SETTLE_DELAY)>>
    /\ gw_positions # <<>>
    /\ GatewayHasOpen("buy") /\ GatewayHasOpen("sell")

\* a text with both words placed a sell entry order
C20_WitnessShortFirst ==
    /\ poll.executed
    /\ poll.signal.text = "buy short"
    /\ \E i \in 1..Len(poll.log) :
           poll.log[i].op = "place_order" /\ poll.log[i].side = "sell"

\* the open orders of a side among those the gateway held before a step
\* and still holds after it
SurvivingOpen(before, after, side) ==
    {before[i] : i \in {j \in 1..Len(before) :
                          /\ before[j].side = side
                          /\ before[j].status = "open"
                          /\ \E k \in 1..Len(after) : after[k] = before[j]}}

\* C21: duplicate guard.  An execution of process_signal sends no entry
\* order when an open order of the new side that the gateway held before
\* is still there after the cancellations.
C21_DuplicateGuard ==
    [][(poll'.n # poll.n /\ poll'.executed) =>
         \A i \in 1..Len(poll'.log) :
             poll'.log[i].op = "place_order" =>
                 SurvivingOpen(gw_orders, gw_orders', poll'.log[i].side) = {}]_vars

\* C22: entry construction.  An execution of process_signal sends an entry
\* order only for a signal that has both its supply and its demand zone
\* minimum, and then with reference price p (the signal's price, or the
\* live price for a blank one): a buy at p - 50 with stop p - 500 and
\* target p + 3000, a sell at p + 50 with stop p + 500 and target p - 3000.
C22_EntryConstruction ==
    [][(poll'.n # poll.n /\ poll'.executed) =>
         \A i \in 1..Len(poll'.log) :
             LET ev == poll'.log[i]
                 p == IF poll'.signal.price.k = "blank" THEN current_price
                      ELSE poll'.signal.price.v
             IN /\ ev.op \in {"place_order", "attach_bracket"} =>
                       poll'.signal.supply /\ poll'.signal.demand
                /\ (ev.op = "place_order" /\ ev.side = "buy") => ev.amount = p - 50
                /\ (ev.op = "place_order" /\ ev.side = "sell") => ev.amount = p + 50
                /\ (ev.op = "attach_bracket" /\ ev.side = "buy") =>
                       (ev.amount = p - 500 /\ ev.target = p + 3000)
                /\ (ev.op = "attach_bracket" /\ ev.side = "sell") =>
                       (ev.amount = p + 500 /\ ev.target = p - 3000)]_vars

\* a buy at 50000: entry 49950, stop 49500, target 53000
C22_Witness ==
    /\ poll.executed /\ poll.result = "order"
    /\ Len(poll.log) >= 2
    /\ LET placed == poll.log[Len(poll.log) - 1]
           bracketed == poll.log[Len(poll.log)]
       IN /\ placed.op = "place_order" /\ placed.side = "buy" /\ placed.amount = 49950
          /\ bracketed.op = "attach_bracket"
          /\ bracketed.amount = 49500 /\ bracketed.target = 53000

\* a buy signal without its supply zone was executed and placed nothing
C22_WitnessNoZone ==
    /\ poll.executed
    /\ ~poll.signal.supply
    /\ poll.signal.text = "buy"
    /\ poll.fail = "none"
    /\ poll.log = <<Sleep(SETTLE_DELAY)>>

\* the open orders of the gateway with the given id
OpenWithId(orders, id) ==
    {i \in 1..Len(orders) : orders[i].id = id /\ orders[i].status = "open"}

\* C23: placement and bracket failure.  The entry is sent as a
\* good-till-cancelled limit order and the bracket request follows it at
\* once, for the order just placed.  When the placement fails no bracket is
\* requested and nothing is added at the gateway; when either request fails
\* the execution returns no order, and nothing is taken back: the last call
\* is the failed one, and after a failed bracket request the entry is still
\* resting open at the gateway.
C23_PlacementAndBracketFailure ==
    [][(poll'.n # poll.n /\ poll'.executed) =>
         LET log == poll'.log
             n == Len(log)
         IN \A i \in 1..n :
              /\ log[i].op = "place_order" =>
                   /\ log[i].tif = "gtc"
                   /\ i >= n - 1
                   /\ IF poll'.fail = "create_limit_order"
                      THEN /\ i = n
                           /\ poll'.result = "none"
                           /\ gw_next_id' = gw_next_id
                           /\ Len(gw_orders') <= Len(gw_orders)
                      ELSE /\ i = n - 1
                           /\ log[n].op = "attach_bracket"
              /\ log[i].op = "attach_bracket" =>
                   /\ i = n /\ i > 1
                   /\ log[i - 1].op = "place_order"
                   /\ log[i].side = log[i - 1].side
                   /\ OpenWithId(gw_orders', log[i].ref) # {}
                   /\ OpenWithId(gw_orders, log[i].ref) = {}
                   /\ poll'.result = IF poll'.fail = "modify_bracket" THEN "none"
                                     ELSE "order"]_vars

\* the bracket request failed after opposite exposure was closed: the entry
\* n1 rests at the gateway without protection and the closure stands
C23_Witness ==
    /\ poll.executed /\ poll.fail = "modify_bracket" /\ poll.result = "none"
    /\ Len(poll.log) >= 3
    /\ poll.log[1].op = "force_close"
    /\ poll.log[Len(poll.log)].op = "attach_bracket"
    /\ OpenWithId(gw_orders, poll.log[Len(poll.log)].ref) # {}

\* the placement failed: the last call is the placement, no order returned
C23_WitnessPlacementFails ==
    /\ poll.executed /\ poll.fail = "create_limit_order" /\ poll.result = "none"
    /\ Len(poll.log) >= 2
    /\ poll.log[Len(poll.log)].op = "place_order"
    /\ gw_next_id = 0

\* C24: cache consistency.  When an execution of process_signal cancels an
\* order during conflict cleanup, the gateway accepts the cancellation and
\* the local order cache has a record of the order, the record's status is
\* canceled afterwards.
C24_CacheConsistency ==
    [][(poll'.n # poll.n /\ poll'.executed) =>
         \A i \in 1..Len(poll'.log) :
             LET ev == poll'.log[i]
             IN (/\ ev.op = "cancel_order"
                 /\ poll'.fail # "cancel_order"
                 /\ ev.ref \in DOMAIN sp_orders) =>
                    sp_orders'[ev.ref].status = "canceled"]_vars

\* C27: a malformed signal price is skipped.  After the loop has executed
\* a signal whose price is present and does not parse, the loop is still
\* running and the signal is the last processed one.
C27_MalformedSignalSkipped ==
    [][(poll'.n # poll.n /\ poll'.executed /\ poll'.signal.price.k = "junk") =>
         (sp' = "running" /\ last_signal' = poll'.signal)]_vars

\* the positions in the log of the cancel requests
CancelRequests(log) == {i \in 1..Len(log) : log[i].op = "cancel_order"}

\* C29: conflict cleanup.  When a directional signal with a reference price
\* is executed and the gateway answers the queries of its open orders, a
\* cancel request is issued for every order it reports open and for no
\* other, those for the orders not on the new side before those for the
\* orders on it, all before the settle delay that precedes the duplicate
\* guard, and also when the cancel requests fail.
C29_ConflictCleanup ==
    [][(/\ poll'.n # poll.n /\ poll'.executed
        /\ ~IsTakeProfit(poll'.signal.text)
        /\ NewSide(poll'.signal.text) # ""
        /\ ~(poll'.signal.price.k = "blank" /\ current_price = NoPrice)
        /\ poll'.fail # "fetch_open_orders")
       => LET log == poll'.log
              side == NewSide(poll'.signal.text)
          IN /\ \A k \in 1..Len(gw_orders) :
                    gw_orders[k].status = "open" <=>
                        \E i \in CancelRequests(log) : log[i].ref = gw_orders[k].id
             /\ \A i \in CancelRequests(log) :
                    \E k \in 1..Len(gw_orders) : log[i].ref = gw_orders[k].id
             /\ \A i, j \in CancelRequests(log) :
                    (log[i].side # side /\ log[j].side = side) => i < j
             /\ \E s \in 1..Len(log) :
                    /\ log[s] = Sleep(SETTLE_DELAY)
                    /\ \A i \in CancelRequests(log) : i < s
                    /\ \A i \in (s + 1)..Len(log) :
                           log[i].op \in {"place_order", "attach_bracket"}]_vars

\* every cancel request of the execution failed and all three open orders
\* got one: the two sell orders first, then the buy order
C29_Witness ==
    /\ poll.executed /\ poll.fail = "cancel_order"
    /\ NewSide(poll.signal.text) = "buy"
    /\ Len(poll.log) >= 4
    /\ \E n \in 0..(Len(poll.log) - 4) :
           /\ poll.log[n + 1].op = "cancel_order" /\ poll.log[n + 1].ref = "o1"
           /\ poll.log[n + 2].op = "cancel_order" /\ poll.log[n + 2].ref = "o3"
           /\ poll.log[n + 3].op = "cancel_order" /\ poll.log[n + 3].ref = "o2"
           /\ poll.log[n + 4] = Sleep(SETTLE_DELAY)
    /\ Len(gw_orders) = 3

\* C34: the entry comes after the closure of the opposite exposure was
\* requested.  Whenever an execution of process_signal places an entry
\* order of a side, a forced close was issued earlier in that execution for
\* every position of the traded instrument the gateway holds on the
\* opposite side, whichever gateway call fails.
C34_EntryAfterClosureRequested ==
    [][(poll'.n # poll.n /\ poll'.executed) =>
         \A j \in 1..Len(poll'.log) :
             poll'.log[j].op = "place_order" =>
                 \A i \in 1..Len(gw_positions) :
                     OppositeOf(gw_positions[i], poll'.log[j].side) =>
                         \E c \in 1..(j - 1) :
                             /\ poll'.log[c].op = "force_close"
                             /\ poll'.log[c].ref = gw_positions[i].id]_vars

\* C35: no retry of a failed signal.  After every execution of
\* process_signal that returns, with an order or without one, the signal is
\* the last processed one; a poll that reads a signal with the text of the
\* last processed one executes nothing; a poll that reads no signal leaves
\* the last processed one as it is.
C35_NoRetry ==
    [][(poll'.n # poll.n) =>
         /\ (poll'.executed /\ poll'.result # "raised") => last_signal' = poll'.signal
         /\ (poll'.present /\ last_signal # NoSignal
                 /\ poll'.signal.text = last_signal.text) =>
                (~poll'.executed /\ UNCHANGED <<last_signal, gwVars, sp_orders>>)
         /\ ~poll'.present => (~poll'.executed /\ last_signal' = last_signal)]_vars

\* the placement of the entry failed and the signal is the last processed
\* one all the same
C35_Witness ==
    /\ poll.executed /\ poll.fail = "create_limit_order" /\ poll.result = "none"
    /\ poll.log # <<>> /\ poll.log[Len(poll.log)].op = "place_order"
    /\ last_signal = poll.signal

\* a buy signal was processed and left no entry order at the gateway; the
\* poll that read buy again executed nothing
C35_WitnessSkipped ==
    /\ poll.present /\ ~poll.executed
    /\ poll.signal.text = "buy" /\ last_signal.text = "buy"
    /\ poll.signal.supply /\ poll.signal.demand /\ poll.signal.price.k = "num"
    /\ gw_next_id = 0 /\ gw_orders = <<>>

(***************************************************************************)
(* Claims about OrderManager, checked under QuerySpec.                     *)
(***************************************************************************)
\* C17: the gateway is primary, the cache the fallback.  Whenever the
\* gateway's query of the open orders succeeds, is_order_open answers
\* whether the gateway reports an open order of the side, whatever the
\* local cache holds.
C17_GatewayPrimary ==
    (call.op = "is_order_open" /\ call.fetch_ok) =>
        (call.result <=> GatewayHasOpen(call.side))

\* C38: the order map is unchanged on error.  When the gateway call of
\* place_order, attach_bracket_to_order or cancel_order raises, the function
\* raises and the order map is as it was before the call; cancel_order and
\* modify_bracket_order with an id the map does not hold raise, call the
\* gateway not at all and leave the map as it was.
C38_CacheUnchangedOnError ==
    /\ (/\ call.op \in {"place_order", "attach_bracket_to_order", "cancel_order"}
        /\ call.sent # <<>>
        /\ ~call.ok)
       => (call.result = "raised" /\ sp_orders = call.before)
    /\ (/\ call.op \in {"cancel_order", "modify_bracket_order"}
        /\ call.id \notin DOMAIN call.before)
       => (call.result = "raised" /\ call.sent = <<>> /\ sp_orders = call.before)

\* the gateway refused to cancel n1: cancel_order raised and n1 is open in
\* the map, with its bracket
C38_Witness ==
    /\ call.op = "cancel_order" /\ call.id = "n1" /\ ~call.ok
    /\ call.sent = <<"cancel_order">>
    /\ call.result = "raised"
    /\ "n1" \in DOMAIN sp_orders
    /\ sp_orders["n1"].status = "open"

\* modify_bracket_order with an id the map does not hold, the map not empty
C38_WitnessUnknownId ==
    /\ call.op = "modify_bracket_order" /\ call.id = "x1"
    /\ call.result = "raised"
    /\ DOMAIN sp_orders = {"n1", "n2"}

\* place_order failed at the gateway after an earlier one had succeeded
C38_WitnessPlaceFails ==
    /\ call.op = "place_order" /\ ~call.ok /\ call.result = "raised"
    /\ "n2" \in DOMAIN sp_orders

(***************************************************************************)
(* Claim about TradeManager.place_market_order, checked under GuardSpec.   *)
(***************************************************************************)
\* the gateway reports a position of the symbol on the side, or an order of
\* the side among the open orders, or the order map holds an order of the
\* side, open or pending, written 60 seconds ago or less
GuardBlocks(c) ==
    \/ /\ c.pos_ok
       /\ \E i \in 1..Len(gw_positions) :
              /\ gw_positions[i].symbol = "BTCUSD"
              /\ gw_positions[i].size.k = "num"
              /\ \/ c.side = "buy" /\ gw_positions[i].size.v > 0
                 \/ c.side = "sell" /\ gw_positions[i].size.v < 0
    \/ /\ c.orders_ok
       /\ \E i \in 1..Len(gw_orders) : gw_orders[i].side = c.side
    \/ \E id \in DOMAIN pt_orders :
           /\ c.current_time - pt_orders[id].timestamp <= 60
           /\ pt_orders[id].side = c.side
           /\ pt_orders[id].status \in {"open", "pending"}

\* C37: market-order guard.  A call of place_market_order with force False
\* sends no order, returns None and records nothing when the gateway
\* reports a position or an order on the side or the order map holds a
\* fresh open or pending order of the side; a call with force True always
\* sends its order to the gateway and deletes no record.
C37_MarketOrderGuard ==
    [][(call'.n # call.n) =>
         /\ (~call'.force /\ GuardBlocks(call')) =>
                /\ call'.sent = <<>>
                /\ call'.result = "none"
                /\ DOMAIN pt_orders' \subseteq DOMAIN pt_orders
         /\ call'.force =>
                /\ call'.sent = <<MarketOrder(call'.side, 1, "ioc", TRUE)>>
                /\ call'.result # "none"
                /\ DOMAIN pt_orders \subseteq DOMAIN pt_orders']_vars

\* an unforced buy while the order map holds an open buy order written 60
\* seconds before: nothing is sent and the record is kept
C37_Witness ==
    /\ call.op = "place_market_order" /\ ~call.force
    /\ call.side = "buy" /\ call.current_time = 100
    /\ gw_positions = <<>> /\ gw_orders = <<>>
    /\ call.sent = <<>> /\ call.result = "none"
    /\ "m1" \in DOMAIN pt_orders
    /\ pt_orders["m1"].timestamp = 40
    /\ pt_orders["m1"].side = "buy" /\ pt_orders["m1"].status = "open"

\* a forced sell while the account holds the short S2: the order is sent
C37_WitnessForced ==
    /\ call.op = "place_market_order" /\ call.force
    /\ call.side = "sell"
    /\ gw_positions = <<S2>>
    /\ call.sent # <<>>

\* an unforced call that nothing blocks sends its order
C37_WitnessSent ==
    /\ call.op = "place_market_order" /\ ~call.force
    /\ call.sent # <<>>
    /\ call.result = "order"

(***************************************************************************)
(* Claims about the two threads, checked under ConcSpec.                   *)
(***************************************************************************)

\* C9: the engine and the orchestrator together issue at most one forced
\* close for one open position: no position is both among those the
\* engine's tick sent a close order for and among those the processing of
\* a signal sent a close order for.
C9_AtMostOneForceClose ==
    \A id \in Ids :
        ~ /\ id \in tick.closed
          /\ \E i \in 1..Len(poll.log) :
                 poll.log[i].op = "force_close" /\ poll.log[i].ref = id

\* C25: cache updates of the two paths are not lost.  Once the engine has
\* recorded a forced-close order and the orchestrator has recorded an entry
\* order, one local order map holds the records of both.
C25_SharedOrderMap ==
    (DOMAIN pt_orders # {} /\ DOMAIN sp_orders # {}) =>
        \E orders \in {pt_orders, sp_orders} :
            (DOMAIN pt_orders \cup DOMAIN sp_orders) \subseteq DOMAIN orders

=============================================================================
